---- MODULE Spec2Model ----
(***************************************************************************)
(* The B+tree key-value store of src/b+tree/kvs.c: arena, bloom filter,    *)
(* B+tree index with tombstone delete, cursor, foreach/range and the       *)
(* snapshot codec.                                                         *)
(*                                                                         *)
(* Positions and indices are the 0-based ones of the C code; a C array     *)
(* a[0..n-1] is the sequence a with a[i] written a[i+1].  A node's arrays  *)
(* are kept only up to num_keys (the code never reads a slot at or past    *)
(* num_keys).  An Entry is held by value in the one leaf slot that points  *)
(* to it; klen and vlen are the lengths of the byte sequences.  A node     *)
(* pointer is the ordinal of the node's calloc (1, 2, ...); NULL is 0.     *)
(*                                                                         *)
(* The configuration constants are scaled down so that splits, bloom       *)
(* growth and arena exhaustion happen within a few operations.  Key bytes  *)
(* are below 128, where char is the same signed or unsigned.               *)
(***************************************************************************)
EXTENDS Integers, Sequences, FiniteSets, TLC

NULL == 0

(* ---- configuration, scaled: the source's values are in the comments ---- *)
ORDER == 4
    \* KVS_BPTREE_ORDER, 64 in the source
BloomInitShift == 3
    \* KVS_BLOOM_INIT_BITS is 1 << 20 in the source
BloomMaxShift == 5
    \* KVS_BLOOM_MAX_BITS is 1 << 26 in the source: INIT times a power of 4
KVS_DEFAULT_POOL_SIZE == 328
    \* 128 * 1024 * 1024 in the source; here six puts fit and a seventh fails half-way
GROWTH_CHECK_STRIDE == 2
    \* the literal 1000 of kvs_put_raw

KVS_BLOOM_INIT_BITS == 2 ^ BloomInitShift
KVS_BLOOM_MAX_BITS == 2 ^ BloomMaxShift

(* ---- the target: LP64, char keys in ASCII ---- *)
SizeofEntry == 32
    \* sizeof(Entry): two pointers, two uint32_t, one uint8_t, padded to 8

KVS_OK == 0
KVS_ERR_NOMEM == -1
KVS_ERR_NOTFOUND == -2
KVS_ERR_IO == -3

(* ---- inputs ---- *)
Keys == {<<1>>, <<1, 1>>, <<2>>, <<3>>, <<3, 1>>}
Vals == {<<7>>, <<8>>}
(* the values a key is put with: one key is overwritten with a second value *)
ValsOf(k) == IF k = <<2>> THEN Vals ELSE {<<7>>}

(* the keys of the specifications that also read *)
SmallKeys == {<<1>>, <<1, 1>>, <<2>>, <<3>>}

(* the keys of the specification with snapshot files *)
(* (two of them set four of the initial bloom bits, so the filter grows) *)
SnapKeys == {<<1, 1>>, <<2>>, <<3>>}
(* the values of that specification: one per key, of different bytes and lengths *)
SnapValsOf(k) == IF k = <<2>> THEN {<<7, 8>>} ELSE IF Len(k) = 2 THEN {<<8>>} ELSE {<<7>>}
(* the keys that specification deletes: tombstones beside a key never deleted *)
SnapDelKeys == {<<2>>, <<3>>}
(* the keys of the specification with damaged snapshot files *)
LoadKeys == {<<1>>, <<2>>}
(* a damaged file keeps at most this many bytes: the header of 20 bytes, the bloom *)
(* vector of 1 or 4, one record of 10 or 11 and a part of the next                *)
MaxCut == 32
(* the one snapshot path *)
Paths == {"test.kvs"}

VARIABLES
    db,      \* the store the caller holds, NoStore when it holds none
    cur,     \* the caller's cursor, NoCursor when it holds none
    fs,      \* path -> the bytes of the file, NoFile when there is none
    model,   \* key -> the value the calls so far leave it with, NotFound for none
    saved,   \* path -> what the store held when kvs_save wrote the file
    ret      \* the last call and what it returned

vars == <<db, cur, fs, model, saved, ret>>

NoFile == <<-1>>

NoCursor == [node |-> -1, index |-> -1]

(* ===== 32-bit words as two 16-bit halves ===== *)
W16 == 65536

RECURSIVE xor8(_, _, _)
xor8(a, b, n) ==
    IF n = 0 THEN 0
    ELSE (IF (a % 2) # (b % 2) THEN 1 ELSE 0) + 2 * xor8(a \div 2, b \div 2, n - 1)

(* h ^ b for a byte b *)
WXorByte(h, b) ==
    [hi |-> h.hi, lo |-> (h.lo \div 256) * 256 + xor8(h.lo % 256, b, 8)]

(* (h * m + a) mod 2^32 for a small multiplier m and addend a *)
WMulAdd(h, m, a) ==
    LET t == h.lo * m + a
    IN  [hi |-> (h.hi * m + t \div W16) % W16, lo |-> t % W16]

(* h mod bits *)
WMod(h, bits) == (((h.hi % bits) * (W16 % bits)) + h.lo) % bits

RECURSIVE fnv1a_from(_, _, _)
fnv1a_from(h, k, i) ==
    IF i > Len(k) THEN h
    ELSE LET x == WXorByte(h, k[i])
             \* x * 16777619 = x * 2^24 + x * 403  (mod 2^32)
             p == WMulAdd(x, 403, 0)
         IN  fnv1a_from([hi |-> (p.hi + (x.lo % 256) * 256) % W16, lo |-> p.lo], k, i + 1)

fnv1a(k) == fnv1a_from([hi |-> 33052, lo |-> 40389], k, 1)

RECURSIVE hash2_from(_, _, _)
hash2_from(h, k, i) ==
    IF i > Len(k) THEN h
    ELSE hash2_from(WXorByte(WMulAdd(h, 33, 0), k[i]), k, i + 1)

hash2(k) == hash2_from([hi |-> 23505, lo |-> 59797], k, 1)

RECURSIVE hash3_from(_, _, _)
hash3_from(h, k, i) ==
    IF i > Len(k) THEN h
    ELSE hash3_from(WMulAdd(h, 31, k[i]), k, i + 1)

hash3(k) == hash3_from([hi |-> 33052, lo |-> 40389], k, 1)

(* ===== Bloom filter: bloom is the set of positions whose bit is 1 ===== *)
bloom_set_bit(d, pos) ==
    IF pos \notin d.bloom
    THEN [d EXCEPT !.bloom = @ \cup {pos}, !.bloom_set_bits = @ + 1]
    ELSE d

bloom_get_bit(d, pos) == pos \in d.bloom

bloom_add(d, k) ==
    LET bits == d.bloom_bits
        d1 == bloom_set_bit(d, WMod(fnv1a(k), bits))
        d2 == bloom_set_bit(d1, WMod(hash2(k), bits))
    IN  bloom_set_bit(d2, WMod(hash3(k), bits))

bloom_maybe(d, k) ==
    LET bits == d.bloom_bits
    IN  /\ bloom_get_bit(d, WMod(fnv1a(k), bits))
        /\ bloom_get_bit(d, WMod(hash2(k), bits))
        /\ bloom_get_bit(d, WMod(hash3(k), bits))

(* ===== Key comparison ===== *)
RECURSIVE memcmp(_, _, _, _)
memcmp(a, b, i, n) ==
    IF i > n THEN 0
    ELSE IF a[i] < b[i] THEN -1
    ELSE IF a[i] > b[i] THEN 1
    ELSE memcmp(a, b, i + 1, n)

(* keycmp with the length tiebreak reversed: the longer key first *)
keycmp_longer_first(k1, k2) ==
    LET l1 == Len(k1)
        l2 == Len(k2)
        min == IF l1 < l2 THEN l1 ELSE l2
        cmp == memcmp(k1, k2, 1, min)
    IN  IF cmp # 0 THEN cmp
        ELSE IF l1 < l2 THEN 1 ELSE IF l1 > l2 THEN -1 ELSE 0

keycmp(k1, k2) ==
    LET l1 == Len(k1)
        l2 == Len(k2)
        min == IF l1 < l2 THEN l1 ELSE l2
        cmp == memcmp(k1, k2, 1, min)
    IN  IF cmp # 0 THEN cmp
        ELSE IF l1 < l2 THEN -1 ELSE IF l1 > l2 THEN 1 ELSE 0

(* ===== Memory pool ===== *)
(* p is the offset of the region in the pool; ok is FALSE for NULL *)
(* pool_alloc without the rounding of size up to a multiple of 8 *)
pool_alloc_unrounded(d, size) ==
    IF d.pool_pos + size > d.pool_size
    THEN [ok |-> FALSE, p |-> 0, db |-> d]
    ELSE [ok |-> TRUE, p |-> d.pool_pos, db |-> [d EXCEPT !.pool_pos = @ + size]]

pool_alloc(d, size) ==
    LET sz == ((size + 7) \div 8) * 8
    IN  IF d.pool_pos + sz > d.pool_size
        THEN [ok |-> FALSE, p |-> 0, db |-> d]
        ELSE [ok |-> TRUE, p |-> d.pool_pos, db |-> [d EXCEPT !.pool_pos = @ + sz]]

(* ===== B+tree nodes ===== *)
NewNode(is_leaf) ==
    [is_leaf |-> is_leaf, num_keys |-> 0, keys |-> <<>>, entries |-> <<>>,
     children |-> <<>>, next |-> NULL, prev |-> NULL]

(* the new node is d'.node_count *)
bpnode_new(d, is_leaf) ==
    LET id == d.node_count + 1
    IN  [d EXCEPT !.node_count = id,
                  !.nodes = [i \in 1..id |-> IF i = id THEN NewNode(is_leaf) ELSE d.nodes[i]]]

RECURSIVE leaf_search(_, _, _, _)
leaf_search(n, key, lo, hi) ==
    IF lo < hi
    THEN LET mid == (lo + hi) \div 2
         IN  IF keycmp(n.keys[mid + 1], key) < 0
             THEN leaf_search(n, key, mid + 1, hi)
             ELSE leaf_search(n, key, lo, mid)
    ELSE lo

leaf_find_pos(n, key) == leaf_search(n, key, 0, n.num_keys)

RECURSIVE internal_search(_, _, _, _)
internal_search(n, key, lo, hi) ==
    IF lo < hi
    THEN LET mid == (lo + hi) \div 2
         IN  IF keycmp(n.keys[mid + 1], key) <= 0
             THEN internal_search(n, key, mid + 1, hi)
             ELSE internal_search(n, key, lo, mid)
    ELSE lo

internal_find_pos(n, key) == internal_search(n, key, 0, n.num_keys)

RECURSIVE descend(_, _, _)
descend(d, n, key) ==
    IF d.nodes[n].is_leaf THEN n
    ELSE descend(d, d.nodes[n].children[internal_find_pos(d.nodes[n], key) + 1], key)

find_leaf(d, key) == IF d.root = NULL THEN NULL ELSE descend(d, d.root, key)

(* s with x stored at 0-based position pos after shifting s[pos..] right *)
ShiftInsert(s, pos, x) == SubSeq(s, 1, pos) \o <<x>> \o SubSeq(s, pos + 1, Len(s))

(* promote with the two children of a new root in the other order *)
promote_new_root_swapped(d, left, right, up_key, parent, parent_pos) ==
    IF parent = NULL
    THEN LET d1 == bpnode_new(d, FALSE)
             new_root == d1.node_count
         IN  [d1 EXCEPT !.nodes[new_root].num_keys = 1,
                        !.nodes[new_root].keys = <<up_key>>,
                        !.nodes[new_root].children = <<right, left>>,
                        !.root = new_root,
                        !.height = @ + 1]
    ELSE [d EXCEPT !.nodes[parent].keys = ShiftInsert(@, parent_pos, up_key),
                   !.nodes[parent].children = ShiftInsert(@, parent_pos + 1, right),
                   !.nodes[parent].num_keys = @ + 1]

(* promote with height left as it was when a new root is made *)
promote_height_kept(d, left, right, up_key, parent, parent_pos) ==
    IF parent = NULL
    THEN LET d1 == bpnode_new(d, FALSE)
             new_root == d1.node_count
         IN  [d1 EXCEPT !.nodes[new_root].num_keys = 1,
                        !.nodes[new_root].keys = <<up_key>>,
                        !.nodes[new_root].children = <<left, right>>,
                        !.root = new_root]
    ELSE [d EXCEPT !.nodes[parent].keys = ShiftInsert(@, parent_pos, up_key),
                   !.nodes[parent].children = ShiftInsert(@, parent_pos + 1, right),
                   !.nodes[parent].num_keys = @ + 1]

(* the parent (or a new root) takes up_key and the new right sibling *)
promote(d, left, right, up_key, parent, parent_pos) ==
    IF parent = NULL
    THEN LET d1 == bpnode_new(d, FALSE)
             new_root == d1.node_count
         IN  [d1 EXCEPT !.nodes[new_root].num_keys = 1,
                        !.nodes[new_root].keys = <<up_key>>,
                        !.nodes[new_root].children = <<left, right>>,
                        !.root = new_root,
                        !.height = @ + 1]
    ELSE [d EXCEPT !.nodes[parent].keys = ShiftInsert(@, parent_pos, up_key),
                   !.nodes[parent].children = ShiftInsert(@, parent_pos + 1, right),
                   !.nodes[parent].num_keys = @ + 1]

(* split_leaf with mid rounded up *)
split_leaf_mid_up(d, leaf, parent, parent_pos) ==
    LET d1 == bpnode_new(d, TRUE)
        new_leaf == d1.node_count
        L == d1.nodes[leaf]
        mid == (L.num_keys + 1) \div 2
        right == [NewNode(TRUE) EXCEPT
                     !.num_keys = L.num_keys - mid,
                     !.keys = SubSeq(L.keys, mid + 1, L.num_keys),
                     !.entries = SubSeq(L.entries, mid + 1, L.num_keys),
                     !.next = L.next,
                     !.prev = leaf]
        left == [L EXCEPT !.num_keys = mid,
                          !.keys = SubSeq(L.keys, 1, mid),
                          !.entries = SubSeq(L.entries, 1, mid),
                          !.next = new_leaf]
        d2 == [d1 EXCEPT !.nodes =
                  [i \in DOMAIN d1.nodes |->
                      IF i = leaf THEN left
                      ELSE IF i = new_leaf THEN right
                      ELSE IF i = L.next THEN [d1.nodes[i] EXCEPT !.prev = new_leaf]
                      ELSE d1.nodes[i]]]
    IN  promote(d2, leaf, new_leaf, right.keys[1], parent, parent_pos)

(* split_leaf with the last key of the left half sent up as the separator *)
split_leaf_promote_left_max(d, leaf, parent, parent_pos) ==
    LET d1 == bpnode_new(d, TRUE)
        new_leaf == d1.node_count
        L == d1.nodes[leaf]
        mid == L.num_keys \div 2
        right == [NewNode(TRUE) EXCEPT
                     !.num_keys = L.num_keys - mid,
                     !.keys = SubSeq(L.keys, mid + 1, L.num_keys),
                     !.entries = SubSeq(L.entries, mid + 1, L.num_keys),
                     !.next = L.next,
                     !.prev = leaf]
        left == [L EXCEPT !.num_keys = mid,
                          !.keys = SubSeq(L.keys, 1, mid),
                          !.entries = SubSeq(L.entries, 1, mid),
                          !.next = new_leaf]
        d2 == [d1 EXCEPT !.nodes =
                  [i \in DOMAIN d1.nodes |->
                      IF i = leaf THEN left
                      ELSE IF i = new_leaf THEN right
                      ELSE IF i = L.next THEN [d1.nodes[i] EXCEPT !.prev = new_leaf]
                      ELSE d1.nodes[i]]]
    IN  promote(d2, leaf, new_leaf, left.keys[mid], parent, parent_pos)

(* split_leaf that leaves the prev link of the old next leaf as it was *)
split_leaf_old_next_unlinked(d, leaf, parent, parent_pos) ==
    LET d1 == bpnode_new(d, TRUE)
        new_leaf == d1.node_count
        L == d1.nodes[leaf]
        mid == L.num_keys \div 2
        right == [NewNode(TRUE) EXCEPT
                     !.num_keys = L.num_keys - mid,
                     !.keys = SubSeq(L.keys, mid + 1, L.num_keys),
                     !.entries = SubSeq(L.entries, mid + 1, L.num_keys),
                     !.next = L.next,
                     !.prev = leaf]
        left == [L EXCEPT !.num_keys = mid,
                          !.keys = SubSeq(L.keys, 1, mid),
                          !.entries = SubSeq(L.entries, 1, mid),
                          !.next = new_leaf]
        d2 == [d1 EXCEPT !.nodes =
                  [i \in DOMAIN d1.nodes |->
                      IF i = leaf THEN left
                      ELSE IF i = new_leaf THEN right
                      ELSE d1.nodes[i]]]
    IN  promote(d2, leaf, new_leaf, right.keys[1], parent, parent_pos)

split_leaf(d, leaf, parent, parent_pos) ==
    LET d1 == bpnode_new(d, TRUE)
        new_leaf == d1.node_count
        L == d1.nodes[leaf]
        mid == L.num_keys \div 2
        right == [NewNode(TRUE) EXCEPT
                     !.num_keys = L.num_keys - mid,
                     !.keys = SubSeq(L.keys, mid + 1, L.num_keys),
                     !.entries = SubSeq(L.entries, mid + 1, L.num_keys),
                     !.next = L.next,
                     !.prev = leaf]
        left == [L EXCEPT !.num_keys = mid,
                          !.keys = SubSeq(L.keys, 1, mid),
                          !.entries = SubSeq(L.entries, 1, mid),
                          !.next = new_leaf]
        d2 == [d1 EXCEPT !.nodes =
                  [i \in DOMAIN d1.nodes |->
                      IF i = leaf THEN left
                      ELSE IF i = new_leaf THEN right
                      ELSE IF i = L.next THEN [d1.nodes[i] EXCEPT !.prev = new_leaf]
                      ELSE d1.nodes[i]]]
    IN  promote(d2, leaf, new_leaf, right.keys[1], parent, parent_pos)

(* split_internal with the key before key mid sent up *)
split_internal_promote_left(d, node, parent, parent_pos) ==
    LET d1 == bpnode_new(d, FALSE)
        new_node == d1.node_count
        N == d1.nodes[node]
        mid == N.num_keys \div 2
        up_key == N.keys[mid]
        right == [NewNode(FALSE) EXCEPT
                     !.num_keys = N.num_keys - mid - 1,
                     !.keys = SubSeq(N.keys, mid + 2, N.num_keys),
                     !.children = SubSeq(N.children, mid + 2, N.num_keys + 1)]
        left == [N EXCEPT !.num_keys = mid,
                          !.keys = SubSeq(N.keys, 1, mid),
                          !.children = SubSeq(N.children, 1, mid + 1)]
        d2 == [d1 EXCEPT !.nodes[node] = left, !.nodes[new_node] = right]
    IN  promote(d2, node, new_node, up_key, parent, parent_pos)

split_internal(d, node, parent, parent_pos) ==
    LET d1 == bpnode_new(d, FALSE)
        new_node == d1.node_count
        N == d1.nodes[node]
        mid == N.num_keys \div 2
        up_key == N.keys[mid + 1]
        right == [NewNode(FALSE) EXCEPT
                     !.num_keys = N.num_keys - mid - 1,
                     !.keys = SubSeq(N.keys, mid + 2, N.num_keys),
                     !.children = SubSeq(N.children, mid + 2, N.num_keys + 1)]
        left == [N EXCEPT !.num_keys = mid,
                          !.keys = SubSeq(N.keys, 1, mid),
                          !.children = SubSeq(N.children, 1, mid + 1)]
        d2 == [d1 EXCEPT !.nodes[node] = left, !.nodes[new_node] = right]
    IN  promote(d2, node, new_node, up_key, parent, parent_pos)

(* the leaf branch of insert_recursive with a tombstoned slot taken for a live one *)
insert_leaf_reuse_as_update(d, node, parent, parent_pos, key, entry) ==
    LET n == d.nodes[node]
        pos == leaf_find_pos(n, key)
    IN  IF pos < n.num_keys /\ keycmp(n.keys[pos + 1], key) = 0
        THEN [db |-> [d EXCEPT !.nodes[node].entries[pos + 1] = entry], added |-> 0]
        ELSE LET d1 == [d EXCEPT !.nodes[node].keys = ShiftInsert(@, pos, entry.key),
                                 !.nodes[node].entries = ShiftInsert(@, pos, entry),
                                 !.nodes[node].num_keys = @ + 1]
             IN  [db |-> IF d1.nodes[node].num_keys >= ORDER - 1
                         THEN split_leaf(d1, node, parent, parent_pos)
                         ELSE d1,
                  added |-> 1]

(* the leaf branch of insert_recursive with the split one key later *)
insert_leaf_split_late(d, node, parent, parent_pos, key, entry) ==
    LET n == d.nodes[node]
        pos == leaf_find_pos(n, key)
    IN  IF pos < n.num_keys /\ keycmp(n.keys[pos + 1], key) = 0
        THEN IF ~n.entries[pos + 1].deleted
             THEN [db |-> [d EXCEPT !.nodes[node].entries[pos + 1].value = entry.value],
                   added |-> 0]
             ELSE [db |-> [d EXCEPT !.nodes[node].entries[pos + 1] = entry],
                   added |-> 1]
        ELSE LET d1 == [d EXCEPT !.nodes[node].keys = ShiftInsert(@, pos, entry.key),
                                 !.nodes[node].entries = ShiftInsert(@, pos, entry),
                                 !.nodes[node].num_keys = @ + 1]
             IN  [db |-> IF d1.nodes[node].num_keys > ORDER - 1
                         THEN split_leaf(d1, node, parent, parent_pos)
                         ELSE d1,
                  added |-> 1]

(* the leaf branch of insert_recursive with the update of a live key counted as an insert *)
insert_leaf_update_counted(d, node, parent, parent_pos, key, entry) ==
    LET n == d.nodes[node]
        pos == leaf_find_pos(n, key)
    IN  IF pos < n.num_keys /\ keycmp(n.keys[pos + 1], key) = 0
        THEN [db |-> [d EXCEPT !.nodes[node].entries[pos + 1] = entry], added |-> 1]
        ELSE LET d1 == [d EXCEPT !.nodes[node].keys = ShiftInsert(@, pos, entry.key),
                                 !.nodes[node].entries = ShiftInsert(@, pos, entry),
                                 !.nodes[node].num_keys = @ + 1]
             IN  [db |-> IF d1.nodes[node].num_keys >= ORDER - 1
                         THEN split_leaf(d1, node, parent, parent_pos)
                         ELSE d1,
                  added |-> 1]

(* the leaf branch of insert_recursive: the store after it and the value returned *)
insert_leaf(d, node, parent, parent_pos, key, entry) ==
    LET n == d.nodes[node]
        pos == leaf_find_pos(n, key)
    IN  IF pos < n.num_keys /\ keycmp(n.keys[pos + 1], key) = 0
        THEN IF ~n.entries[pos + 1].deleted
             THEN [db |-> [d EXCEPT !.nodes[node].entries[pos + 1].value = entry.value],
                   added |-> 0]
             ELSE [db |-> [d EXCEPT !.nodes[node].entries[pos + 1] = entry],
                   added |-> 1]
        ELSE LET d1 == [d EXCEPT !.nodes[node].keys = ShiftInsert(@, pos, entry.key),
                                 !.nodes[node].entries = ShiftInsert(@, pos, entry),
                                 !.nodes[node].num_keys = @ + 1]
             IN  [db |-> IF d1.nodes[node].num_keys >= ORDER - 1
                         THEN split_leaf(d1, node, parent, parent_pos)
                         ELSE d1,
                  added |-> 1]

(* insert_recursive with the split of an internal node one key later *)
RECURSIVE insert_recursive_split_late(_, _, _, _, _, _)
insert_recursive_split_late(d, node, parent, parent_pos, key, entry) ==
    LET n == d.nodes[node] IN
    IF n.is_leaf
    THEN insert_leaf(d, node, parent, parent_pos, key, entry)
    ELSE LET pos == internal_find_pos(n, key)
             r == insert_recursive_split_late(d, n.children[pos + 1], node, pos, key, entry)
         IN  [db |-> IF r.db.nodes[node].num_keys > ORDER - 1
                     THEN split_internal(r.db, node, parent, parent_pos)
                     ELSE r.db,
              added |-> r.added]

RECURSIVE insert_recursive(_, _, _, _, _, _)
insert_recursive(d, node, parent, parent_pos, key, entry) ==
    LET n == d.nodes[node] IN
    IF n.is_leaf
    THEN insert_leaf(d, node, parent, parent_pos, key, entry)
    ELSE LET pos == internal_find_pos(n, key)
             r == insert_recursive(d, n.children[pos + 1], node, pos, key, entry)
         IN  [db |-> IF r.db.nodes[node].num_keys >= ORDER - 1
                     THEN split_internal(r.db, node, parent, parent_pos)
                     ELSE r.db,
              added |-> r.added]

(* ===== Bloom rebuild and growth ===== *)
RECURSIVE rebuild_slots(_, _, _)
rebuild_slots(d, leaf, i) ==
    IF i >= d.nodes[leaf].num_keys THEN d
    ELSE rebuild_slots(IF ~d.nodes[leaf].entries[i + 1].deleted
                       THEN bloom_add(d, d.nodes[leaf].keys[i + 1])
                       ELSE d,
                       leaf, i + 1)

RECURSIVE rebuild_from(_, _)
rebuild_from(d, leaf) ==
    IF leaf = NULL THEN d
    ELSE rebuild_from(rebuild_slots(d, leaf, 0), d.nodes[leaf].next)

bloom_rebuild(d) == rebuild_from(d, d.first_leaf)

(* bloom_expand without the rebuild from the tree *)
bloom_expand_no_rebuild(d) ==
    LET x4 == d.bloom_bits * 4
        new_bits == IF x4 > KVS_BLOOM_MAX_BITS THEN KVS_BLOOM_MAX_BITS ELSE x4
    IN  IF new_bits = d.bloom_bits THEN d
        ELSE [d EXCEPT !.bloom = {}, !.bloom_bits = new_bits, !.bloom_set_bits = 0]

bloom_expand(d) ==
    LET x4 == d.bloom_bits * 4
        new_bits == IF x4 > KVS_BLOOM_MAX_BITS THEN KVS_BLOOM_MAX_BITS ELSE x4
    IN  IF new_bits = d.bloom_bits THEN d
        ELSE bloom_rebuild([d EXCEPT !.bloom = {},
                                     !.bloom_bits = new_bits,
                                     !.bloom_set_bits = 0])

(* bloom_check_expand without its test of the fill *)
bloom_check_expand_any_fill(d) ==
    IF d.bloom_bits < KVS_BLOOM_MAX_BITS THEN bloom_expand(d) ELSE d

(* fill >= 0.5 *)
bloom_check_expand(d) ==
    IF 2 * d.bloom_set_bits >= d.bloom_bits /\ d.bloom_bits < KVS_BLOOM_MAX_BITS
    THEN bloom_expand(d)
    ELSE d

(* ===== Public API ===== *)
NoPath == ""        \* a NULL path

(* no store: a closed handle, or the NULL kvs_load returns *)
NoStore ==
    [pool_size |-> 0, pool_pos |-> 0, root |-> NULL, first_leaf |-> NULL,
     count |-> 0, height |-> 0, node_count |-> 0,
     bloom |-> {}, bloom_bits |-> 0, bloom_set_bits |-> 0,
     filepath |-> NoPath, nodes |-> <<>>]

kvs_open(path) ==
    LET d0 == [pool_size |-> KVS_DEFAULT_POOL_SIZE, pool_pos |-> 0,
               root |-> NULL, first_leaf |-> NULL,
               count |-> 0, height |-> 0, node_count |-> 0,
               bloom |-> {}, bloom_bits |-> KVS_BLOOM_INIT_BITS, bloom_set_bits |-> 0,
               filepath |-> path, nodes |-> <<>>]
        d1 == bpnode_new(d0, TRUE)
    IN  [d1 EXCEPT !.root = d1.node_count, !.first_leaf = d1.node_count, !.height = 1]

RECURSIVE leftmost(_, _)
leftmost(d, n) == IF d.nodes[n].is_leaf THEN n ELSE leftmost(d, d.nodes[n].children[1])

(* the tail of kvs_put_raw: first_leaf is refreshed, then the periodic growth check *)
put_refresh(d2) ==
    LET d3 == [d2 EXCEPT !.first_leaf = leftmost(d2, d2.root)]
    IN  [db |-> IF d3.count % GROWTH_CHECK_STRIDE = 0
                THEN bloom_check_expand(d3)
                ELSE d3,
         rc |-> KVS_OK]

(* count++ when insert_recursive returned nonzero (r is what it returned) *)
put_count(r) == put_refresh(IF r.added # 0 THEN [r.db EXCEPT !.count = @ + 1] ELSE r.db)

(* kvs_put_raw with bloom_add ahead of the test of the three allocations *)
kvs_put_raw_bloom_first(d, key, value) ==
    LET a1 == pool_alloc(d, SizeofEntry)
        a2 == pool_alloc(a1.db, Len(key) + 1)
        a3 == pool_alloc(a2.db, Len(value) + 1)
        d1 == bloom_add(a3.db, key)
    IN  IF ~a1.ok \/ ~a2.ok \/ ~a3.ok
        THEN [db |-> d1, rc |-> KVS_ERR_NOMEM]
        ELSE put_count(insert_recursive(d1, d1.root, NULL, 0, key,
                                        [key |-> key, value |-> value, deleted |-> FALSE]))

(* kvs_put_raw that gives its three regions back when the key was live *)
kvs_put_raw_overwrite_in_place(d, key, value) ==
    LET a1 == pool_alloc(d, SizeofEntry)
        a2 == pool_alloc(a1.db, Len(key) + 1)
        a3 == pool_alloc(a2.db, Len(value) + 1)
        d1 == bloom_add(a3.db, key)
    IN  IF ~a1.ok \/ ~a2.ok \/ ~a3.ok
        THEN [db |-> a3.db, rc |-> KVS_ERR_NOMEM]
        ELSE put_count(LET r == insert_recursive(d1, d1.root, NULL, 0, key,
                                                 [key |-> key, value |-> value, deleted |-> FALSE])
                       IN  IF r.added # 0 THEN r
                           ELSE [r EXCEPT !.db.pool_pos = d.pool_pos])

kvs_put_raw(d, key, value) ==
    LET a1 == pool_alloc(d, SizeofEntry)
        a2 == pool_alloc(a1.db, Len(key) + 1)
        a3 == pool_alloc(a2.db, Len(value) + 1)
    IN  IF ~a1.ok \/ ~a2.ok \/ ~a3.ok
        THEN [db |-> a3.db, rc |-> KVS_ERR_NOMEM]
        ELSE LET e == [key |-> key, value |-> value, deleted |-> FALSE]
                 d1 == bloom_add(a3.db, key)
             IN  put_count(insert_recursive(d1, d1.root, NULL, 0, key, e))

(* the slot of key in its leaf, when the key is there and not tombstoned *)
lookup(d, key) ==
    LET leaf == find_leaf(d, key)
        pos == IF leaf = NULL THEN 0 ELSE leaf_find_pos(d.nodes[leaf], key)
    IN  [found |-> /\ bloom_maybe(d, key)
                   /\ leaf # NULL
                   /\ pos < d.nodes[leaf].num_keys
                   /\ keycmp(d.nodes[leaf].keys[pos + 1], key) = 0
                   /\ ~d.nodes[leaf].entries[pos + 1].deleted,
         leaf |-> leaf, pos |-> pos]

NotFound == <<>>

(* kvs_get_raw without its test of the tombstone flag *)
kvs_get_raw_tombstoned_too(d, key) ==
    LET leaf == find_leaf(d, key)
        pos == leaf_find_pos(d.nodes[leaf], key)
    IN  IF /\ bloom_maybe(d, key)
           /\ pos < d.nodes[leaf].num_keys
           /\ keycmp(d.nodes[leaf].keys[pos + 1], key) = 0
        THEN d.nodes[leaf].entries[pos + 1].value
        ELSE NotFound

(* the returned copy of the value, NotFound for NULL *)
kvs_get_raw(d, key) ==
    LET l == lookup(d, key)
    IN  IF l.found THEN d.nodes[l.leaf].entries[l.pos + 1].value ELSE NotFound

kvs_exists(d, key) == lookup(d, key).found

(* kvs_delete without its decrement of count *)
kvs_delete_keeps_count(d, key) ==
    LET l == lookup(d, key)
    IN  IF l.found
        THEN [db |-> [d EXCEPT !.nodes[l.leaf].entries[l.pos + 1].deleted = TRUE],
              rc |-> KVS_OK]
        ELSE [db |-> d, rc |-> KVS_ERR_NOTFOUND]

(* kvs_delete that takes the key and its entry out of the leaf *)
kvs_delete_removes_slot(d, key) ==
    LET l == lookup(d, key)
        n == IF l.found THEN d.nodes[l.leaf] ELSE NewNode(TRUE)
    IN  IF l.found
        THEN [db |-> [d EXCEPT !.nodes[l.leaf].keys =
                                   SubSeq(n.keys, 1, l.pos) \o SubSeq(n.keys, l.pos + 2, n.num_keys),
                               !.nodes[l.leaf].entries =
                                   SubSeq(n.entries, 1, l.pos) \o SubSeq(n.entries, l.pos + 2, n.num_keys),
                               !.nodes[l.leaf].num_keys = @ - 1,
                               !.count = @ - 1],
              rc |-> KVS_OK]
        ELSE [db |-> d, rc |-> KVS_ERR_NOTFOUND]

(* kvs_delete without its test of the tombstone flag *)
kvs_delete_tombstoned_again(d, key) ==
    LET leaf == find_leaf(d, key)
        pos == leaf_find_pos(d.nodes[leaf], key)
    IN  IF /\ bloom_maybe(d, key)
           /\ pos < d.nodes[leaf].num_keys
           /\ keycmp(d.nodes[leaf].keys[pos + 1], key) = 0
        THEN [db |-> [d EXCEPT !.nodes[leaf].entries[pos + 1].deleted = TRUE,
                               !.count = @ - 1],
              rc |-> KVS_OK]
        ELSE [db |-> d, rc |-> KVS_ERR_NOTFOUND]

kvs_delete(d, key) ==
    LET l == lookup(d, key)
    IN  IF l.found
        THEN [db |-> [d EXCEPT !.nodes[l.leaf].entries[l.pos + 1].deleted = TRUE,
                               !.count = @ - 1],
              rc |-> KVS_OK]
        ELSE [db |-> d, rc |-> KVS_ERR_NOTFOUND]

(* ===== Cursor: [node, index] ===== *)
kvs_cursor_new == [node |-> NULL, index |-> 0]

(* kvs_cursor_valid with the position one past the leaf's last key taken for valid *)
kvs_cursor_valid_at_end(d, c) ==
    c.node # NULL /\ c.index >= 0 /\ c.index <= d.nodes[c.node].num_keys

kvs_cursor_valid(d, c) ==
    c.node # NULL /\ c.index >= 0 /\ c.index < d.nodes[c.node].num_keys

(* the do-while of kvs_cursor_next, entered at its body *)
RECURSIVE next_loop(_, _)
next_loop(d, c) ==
    LET i1 == c.index + 1
        c1 == IF i1 >= d.nodes[c.node].num_keys
              THEN [node |-> d.nodes[c.node].next, index |-> 0]
              ELSE [node |-> c.node, index |-> i1]
    IN  IF /\ c1.node # NULL
           /\ c1.index < d.nodes[c1.node].num_keys
           /\ d.nodes[c1.node].entries[c1.index + 1].deleted
        THEN next_loop(d, c1)
        ELSE c1

(* kvs_cursor_next that starts over before the first leaf when the cursor has no leaf *)
kvs_cursor_next_restarting(d, c) ==
    IF c.node = NULL THEN next_loop(d, [node |-> d.first_leaf, index |-> -1])
    ELSE next_loop(d, c)

kvs_cursor_next(d, c) == IF c.node = NULL THEN c ELSE next_loop(d, c)

(* the do-while of kvs_cursor_prev, entered at its body *)
RECURSIVE prev_loop(_, _)
prev_loop(d, c) ==
    LET i1 == c.index - 1
        pn == d.nodes[c.node].prev
        c1 == IF i1 < 0
              THEN [node |-> pn,
                    index |-> IF pn # NULL THEN d.nodes[pn].num_keys - 1 ELSE i1]
              ELSE [node |-> c.node, index |-> i1]
    IN  IF /\ c1.node # NULL
           /\ c1.index >= 0
           /\ d.nodes[c1.node].entries[c1.index + 1].deleted
        THEN prev_loop(d, c1)
        ELSE c1

kvs_cursor_prev(d, c) == IF c.node = NULL THEN c ELSE prev_loop(d, c)

RECURSIVE first_loop(_, _)
first_loop(d, c) ==
    IF /\ c.node # NULL
       /\ c.index < d.nodes[c.node].num_keys
       /\ d.nodes[c.node].entries[c.index + 1].deleted
    THEN first_loop(d, kvs_cursor_next(d, c))
    ELSE c

(* kvs_cursor_first without its loop over tombstones *)
kvs_cursor_first_no_skip(d, c) == [node |-> d.first_leaf, index |-> 0]

kvs_cursor_first(d, c) == first_loop(d, [node |-> d.first_leaf, index |-> 0])

RECURSIVE rightmost(_, _)
rightmost(d, n) ==
    IF d.nodes[n].is_leaf THEN n
    ELSE rightmost(d, d.nodes[n].children[d.nodes[n].num_keys + 1])

RECURSIVE last_loop(_, _)
last_loop(d, c) ==
    IF c.index >= 0 /\ d.nodes[c.node].entries[c.index + 1].deleted
    THEN last_loop(d, kvs_cursor_prev(d, c))
    ELSE c

(* kvs_cursor_last without its loop over tombstones *)
kvs_cursor_last_no_skip(d, c) ==
    LET n == rightmost(d, d.root)
    IN  [node |-> n, index |-> d.nodes[n].num_keys - 1]

kvs_cursor_last(d, c) ==
    LET n == rightmost(d, d.root)
    IN  last_loop(d, [node |-> n, index |-> d.nodes[n].num_keys - 1])

(* kvs_cursor_seek without its step to the next leaf *)
kvs_cursor_seek_stays(d, c, key) ==
    LET leaf == find_leaf(d, key)
    IN  [node |-> leaf, index |-> leaf_find_pos(d.nodes[leaf], key)]

kvs_cursor_seek(d, c, key) ==
    LET leaf == find_leaf(d, key)
    IN  IF leaf = NULL THEN [node |-> NULL, index |-> c.index]
        ELSE LET pos == leaf_find_pos(d.nodes[leaf], key)
             IN  IF pos >= d.nodes[leaf].num_keys
                 THEN [node |-> d.nodes[leaf].next, index |-> 0]
                 ELSE [node |-> leaf, index |-> pos]

Nothing == <<>>

kvs_cursor_key(d, c) ==
    IF ~kvs_cursor_valid(d, c) THEN Nothing ELSE d.nodes[c.node].keys[c.index + 1]

kvs_cursor_value(d, c) ==
    IF ~kvs_cursor_valid(d, c) THEN Nothing
    ELSE d.nodes[c.node].entries[c.index + 1].value

(* ===== foreach and range: the sequence of callback calls, as <<key, value>> ===== *)
(* the slots of a leaf without the test of the tombstone flag *)
foreach_slots_tombstoned_too(d, leaf, i) ==
    [j \in 1..d.nodes[leaf].num_keys |->
        <<d.nodes[leaf].entries[j].key, d.nodes[leaf].entries[j].value>>]

RECURSIVE foreach_slots(_, _, _)
foreach_slots(d, leaf, i) ==
    IF i >= d.nodes[leaf].num_keys THEN <<>>
    ELSE LET e == d.nodes[leaf].entries[i + 1]
         IN  (IF ~e.deleted THEN << <<e.key, e.value>> >> ELSE <<>>)
             \o foreach_slots(d, leaf, i + 1)

RECURSIVE foreach_from(_, _)
foreach_from(d, leaf) ==
    IF leaf = NULL THEN <<>>
    ELSE foreach_slots(d, leaf, 0) \o foreach_from(d, d.nodes[leaf].next)

(* what kvs_stats stores in *stats; the fill rate is the quotient num / den, in percent *)
kvs_stats(d) ==
    [count |-> d.count,
     memory_used |-> d.pool_pos,
     bloom_bits |-> d.bloom_bits,
     bloom_fill_rate |-> [num |-> d.bloom_set_bits * 100, den |-> d.bloom_bits],
     tree_height |-> d.height,
     node_count |-> d.node_count]

kvs_foreach(d) ==
    LET out == foreach_from(d, d.first_leaf)
    IN  [out |-> out, count |-> Len(out)]

RECURSIVE range_loop(_, _, _)
range_loop(d, c, to) ==
    IF ~kvs_cursor_valid(d, c) THEN <<>>
    ELSE LET key == kvs_cursor_key(d, c)
         IN  IF keycmp(key, to) > 0 THEN <<>>
             ELSE << <<key, kvs_cursor_value(d, c)>> >>
                  \o range_loop(d, kvs_cursor_next(d, c), to)

kvs_range(d, from, to) ==
    LET out == range_loop(d, kvs_cursor_seek(d, kvs_cursor_new, from), to)
    IN  [out |-> out, count |-> Len(out)]

(* first(), then key/value and next() while the cursor is valid: the client loop of *)
(* kvs_example.c, run to the end instead of its five steps                        *)
RECURSIVE forward_from(_, _)
forward_from(d, c) ==
    IF ~kvs_cursor_valid(d, c) THEN <<>>
    ELSE << <<kvs_cursor_key(d, c), kvs_cursor_value(d, c)>> >>
         \o forward_from(d, kvs_cursor_next(d, c))

scan_forward(d) == forward_from(d, kvs_cursor_first(d, kvs_cursor_new))

(* last(), then key/value and prev() while the cursor is valid: the client loop of  *)
(* kvs_example.c, run to the end instead of its three steps                        *)
RECURSIVE backward_from(_, _)
backward_from(d, c) ==
    IF ~kvs_cursor_valid(d, c) THEN <<>>
    ELSE << <<kvs_cursor_key(d, c), kvs_cursor_value(d, c)>> >>
         \o backward_from(d, kvs_cursor_prev(d, c))

scan_backward(d) == backward_from(d, kvs_cursor_last(d, kvs_cursor_new))

(* ===== Persistence: a file is the sequence of its bytes ===== *)
KVS_MAGIC == 1414546003     \* 0x54504253
SizeofSizeT == 8            \* sizeof(size_t) on an LP64 target

(* n as w little-endian bytes (fwrite of an integer object) *)
RECURSIVE LE(_, _)
LE(n, w) == IF w = 0 THEN <<>> ELSE <<n % 256>> \o LE(n \div 256, w - 1)

(* the integer object whose bytes are b (fread into an integer object) *)
RECURSIVE FromLE(_)
FromLE(b) == IF b = <<>> THEN 0 ELSE b[1] + 256 * FromLE(Tail(b))

RECURSIVE byte_of(_, _, _)
byte_of(bloom, j, b) ==
    IF b = 8 THEN 0
    ELSE (IF 8 * j + b \in bloom THEN 1 ELSE 0) + 2 * byte_of(bloom, j, b + 1)

(* the bloom vector as bloom_bits / 8 bytes, bit pos at byte pos >> 3, bit pos & 7 *)
bloom_bytes(bloom, bits) == [j \in 1..(bits \div 8) |-> byte_of(bloom, j - 1, 0)]

RECURSIVE bits_of(_, _)
bits_of(byte, b) ==
    IF b = 8 THEN {}
    ELSE (IF byte % 2 = 1 THEN {b} ELSE {}) \cup bits_of(byte \div 2, b + 1)

bloom_of_bytes(bytes) ==
    UNION {{8 * (j - 1) + b : b \in bits_of(bytes[j], 0)} : j \in 1..Len(bytes)}

(* the inner loop of kvs_save without its test of the tombstone flag *)
RECURSIVE save_slots_tombstoned_too(_, _, _)
save_slots_tombstoned_too(d, leaf, i) ==
    IF i >= d.nodes[leaf].num_keys THEN <<>>
    ELSE LET e == d.nodes[leaf].entries[i + 1]
         IN  LE(Len(e.key), 4) \o LE(Len(e.value), 4) \o e.key \o e.value
             \o save_slots_tombstoned_too(d, leaf, i + 1)

RECURSIVE save_slots(_, _, _)
save_slots(d, leaf, i) ==
    IF i >= d.nodes[leaf].num_keys THEN <<>>
    ELSE LET e == d.nodes[leaf].entries[i + 1]
         IN  (IF ~e.deleted
              THEN LE(Len(e.key), 4) \o LE(Len(e.value), 4) \o e.key \o e.value
              ELSE <<>>)
             \o save_slots(d, leaf, i + 1)

(* the outer loop of kvs_save stopped after its first leaf *)
save_from_one_leaf(d, leaf) ==
    IF leaf = NULL THEN <<>> ELSE save_slots(d, leaf, 0)

RECURSIVE save_from(_, _)
save_from(d, leaf) ==
    IF leaf = NULL THEN <<>>
    ELSE save_slots(d, leaf, 0) \o save_from(d, d.nodes[leaf].next)

(* the bytes kvs_save writes *)
kvs_save(d) ==
    LE(KVS_MAGIC, 4) \o LE(d.count, SizeofSizeT) \o LE(d.bloom_bits, SizeofSizeT)
    \o bloom_bytes(d.bloom, d.bloom_bits)
    \o save_from(d, d.first_leaf)

(* fread of n bytes at offset pos of a file that has them *)
fread(f, pos, n) == SubSeq(f, pos + 1, pos + n)

(* What an object holds that fread did not fill.  kvs_load never tests     *)
(* fread's result: past the end of the file the integer it reads into is   *)
(* left as it was or partly written, and so are the malloc'ed buffers, and *)
(* their values are indeterminate.  A Junk record is one choice of those   *)
(* values; the bit count, which kvs_open had set, is taken as left so.     *)
Junk ==
    [magic : {0, KVS_MAGIC}, count : {0, 1}, bits : {KVS_BLOOM_INIT_BITS},
     len : {1}, byte : {1}]

(* fread into an n-byte integer object at offset pos *)
fread_int(f, pos, n, junk) ==
    IF pos + n <= Len(f) THEN FromLE(fread(f, pos, n)) ELSE junk

(* fread into a fresh n-byte buffer at offset pos *)
fread_buf(f, pos, n, junk) ==
    IF pos + n <= Len(f) THEN fread(f, pos, n) ELSE [i \in 1..n |-> junk]

(* the entry loop of kvs_load from record i at offset pos; the result of put is dropped *)
RECURSIVE load_entries(_, _, _, _, _, _)
load_entries(d, f, pos, i, count, j) ==
    IF i >= count THEN d
    ELSE LET klen == fread_int(f, pos, 4, j.len)
             vlen == fread_int(f, pos + 4, 4, j.len)
             key == fread_buf(f, pos + 8, klen, j.byte)
             val == fread_buf(f, pos + 8 + klen, vlen, j.byte)
         IN  load_entries(kvs_put_raw(d, key, val).db, f, pos + 8 + klen + vlen,
                          i + 1, count, j)

(* kvs_load with its entry loop started at 1 *)
kvs_load_from_one(f, j) ==
    IF fread_int(f, 0, 4, j.magic) # KVS_MAGIC THEN NoStore
    ELSE LET d0 == kvs_open(NoPath)
             count == fread_int(f, 4, SizeofSizeT, j.count)
             bits == fread_int(f, 4 + SizeofSizeT, SizeofSizeT, j.bits)
             d1 == [d0 EXCEPT !.bloom_bits = bits,
                              !.bloom = bloom_of_bytes(fread_buf(f, 4 + 2 * SizeofSizeT,
                                                                 bits \div 8, j.byte))]
         IN  load_entries(d1, f, 4 + 2 * SizeofSizeT + bits \div 8, 1, count, j)

(* the store kvs_load returns for the opened file f, NoStore for NULL; j is what *)
(* the objects hold that a file which ends early leaves unfilled                 *)
kvs_load(f, j) ==
    IF fread_int(f, 0, 4, j.magic) # KVS_MAGIC THEN NoStore
    ELSE LET d0 == kvs_open(NoPath)
             count == fread_int(f, 4, SizeofSizeT, j.count)
             bits == fread_int(f, 4 + SizeofSizeT, SizeofSizeT, j.bits)
             d1 == [d0 EXCEPT !.bloom_bits = bits,
                              !.bloom = bloom_of_bytes(fread_buf(f, 4 + 2 * SizeofSizeT,
                                                                 bits \div 8, j.byte))]
         IN  load_entries(d1, f, 4 + 2 * SizeofSizeT + bits \div 8, 0, count, j)

(* ===== What a store holds, read off the tree from the root ===== *)
RECURSIVE Leaves(_, _)
Leaves(d, n) ==
    IF d.nodes[n].is_leaf THEN {n}
    ELSE UNION {Leaves(d, d.nodes[n].children[i]) : i \in 1..(d.nodes[n].num_keys + 1)}

(* the entries the leaves under the root refer to, as <<leaf, slot>> *)
Slots(d) == UNION {{<<l, i>> : i \in 1..d.nodes[l].num_keys} : l \in Leaves(d, d.root)}

EntryAt(d, s) == d.nodes[s[1]].entries[s[2]]

LiveSlots(d) == {s \in Slots(d) : ~EntryAt(d, s).deleted}

LivePairs(d) == {<<EntryAt(d, s).key, EntryAt(d, s).value>> : s \in LiveSlots(d)}

TombKeys(d) == {EntryAt(d, s).key : s \in Slots(d) \ LiveSlots(d)}

StoredKeys(d) == {d.nodes[s[1]].keys[s[2]] : s \in Slots(d)}

(* ===== The program ===== *)
(* A caller holding one store handle.  model is the map the calls so far   *)
(* describe (a history variable); ret is what the last call returned: for  *)
(* put together with was, the state of the key's slot before the call      *)
(* ("absent", "live" or "tombstoned", a history value).                    *)

(* the state of key's slot in the tree, found by descent alone *)
SlotState(d, key) ==
    LET leaf == find_leaf(d, key)
        pos == leaf_find_pos(d.nodes[leaf], key)
    IN  IF pos < d.nodes[leaf].num_keys /\ keycmp(d.nodes[leaf].keys[pos + 1], key) = 0
        THEN IF d.nodes[leaf].entries[pos + 1].deleted THEN "tombstoned" ELSE "live"
        ELSE "absent"

NoneSaved == [live |-> {}, count |-> 0, dead |-> {}]

Holding == db # NoStore

Init ==
    /\ db = kvs_open(NoPath)
    /\ cur = NoCursor
    /\ fs = [p \in Paths |-> NoFile]
    /\ model = [k \in Keys |-> NotFound]
    /\ saved = [p \in Paths |-> NoneSaved]
    /\ ret = [op |-> "open", path |-> NoPath]

(* ---- mutations: by section 5 of the design a cursor does not survive one, ---- *)
(* ---- so the caller holds none while it mutates                            ---- *)
Put(k, v) ==
    LET r == kvs_put_raw(db, k, v)
    IN  /\ Holding /\ cur = NoCursor
        /\ db' = r.db
        /\ model' = IF r.rc = KVS_OK THEN [model EXCEPT ![k] = v] ELSE model
        /\ ret' = [op |-> "put", rc |-> r.rc, was |-> SlotState(db, k)]
        /\ UNCHANGED <<cur, fs, saved>>

Delete(k) ==
    LET r == kvs_delete(db, k)
    IN  /\ Holding /\ cur = NoCursor
        /\ db' = r.db
        /\ model' = IF r.rc = KVS_OK THEN [model EXCEPT ![k] = NotFound] ELSE model
        /\ ret' = [op |-> "delete", rc |-> r.rc]
        /\ UNCHANGED <<cur, fs, saved>>

(* ---- point reads ---- *)
Get(k) ==
    /\ Holding
    /\ ret' = [op |-> "get", key |-> k, val |-> kvs_get_raw(db, k)]
    /\ UNCHANGED <<db, cur, fs, model, saved>>

Exists(k) ==
    /\ Holding
    /\ ret' = [op |-> "exists", key |-> k, val |-> kvs_exists(db, k)]
    /\ UNCHANGED <<db, cur, fs, model, saved>>

(* ---- cursor ---- *)
CursorNew ==
    /\ Holding /\ cur = NoCursor
    /\ cur' = kvs_cursor_new
    /\ ret' = [op |-> "cursor_new"]
    /\ UNCHANGED <<db, fs, model, saved>>

CursorFree ==
    /\ cur # NoCursor
    /\ cur' = NoCursor
    /\ ret' = [op |-> "cursor_free"]
    /\ UNCHANGED <<db, fs, model, saved>>

(* a cursor motion that also stores the leaf it stops in as first_leaf *)
Moved_keeping_leaf(c) ==
    /\ cur' = c
    /\ ret' = [op |-> "move", rc |-> kvs_cursor_valid(db, c)]
    /\ db' = IF c.node # NULL THEN [db EXCEPT !.first_leaf = c.node] ELSE db
    /\ UNCHANGED <<fs, model, saved>>

(* a cursor motion returns kvs_cursor_valid of the new position *)
Moved(c) ==
    /\ cur' = c
    /\ ret' = [op |-> "move", rc |-> kvs_cursor_valid(db, c)]
    /\ UNCHANGED <<db, fs, model, saved>>

CursorFirst == cur # NoCursor /\ Moved(kvs_cursor_first(db, cur))

CursorLast == cur # NoCursor /\ Moved(kvs_cursor_last(db, cur))

CursorNext == cur # NoCursor /\ Moved(kvs_cursor_next(db, cur))

CursorPrev == cur # NoCursor /\ Moved(kvs_cursor_prev(db, cur))

CursorSeek(k) ==
    /\ cur # NoCursor
    /\ cur' = kvs_cursor_seek(db, cur, k)
    /\ ret' = [op |-> "seek", key |-> k, rc |-> kvs_cursor_valid(db, cur')]
    /\ UNCHANGED <<db, fs, model, saved>>

(* ---- whole-store reads ---- *)
Foreach ==
    Holding /\
    LET r == kvs_foreach(db)
    IN  /\ ret' = [op |-> "foreach", out |-> r.out, count |-> r.count]
        /\ UNCHANGED <<db, cur, fs, model, saved>>

Range(from, to) ==
    Holding /\
    LET r == kvs_range(db, from, to)
    IN  /\ ret' = [op |-> "range", from |-> from, to |-> to,
                   out |-> r.out, count |-> r.count]
        /\ UNCHANGED <<db, cur, fs, model, saved>>

Stats ==
    /\ Holding
    /\ ret' = [op |-> "stats", stats |-> kvs_stats(db)]
    /\ UNCHANGED <<db, cur, fs, model, saved>>

ScanForward ==
    /\ Holding
    /\ ret' = [op |-> "scan_forward", out |-> scan_forward(db)]
    /\ UNCHANGED <<db, cur, fs, model, saved>>

ScanBackward ==
    /\ Holding
    /\ ret' = [op |-> "scan_backward", out |-> scan_backward(db)]
    /\ UNCHANGED <<db, cur, fs, model, saved>>

(* ---- snapshots and the life of the handle ---- *)
Snapshot(d) == [live |-> LivePairs(d), count |-> d.count, dead |-> TombKeys(d)]

Save(p) ==
    /\ Holding
    /\ fs' = [fs EXCEPT ![p] = kvs_save(db)]
    /\ saved' = [saved EXCEPT ![p] = Snapshot(db)]
    /\ ret' = [op |-> "save", rc |-> KVS_OK]
    /\ UNCHANGED <<db, cur, model>>

(* kvs_close saves to the path the store was opened with; the caller has freed its cursor *)
Close ==
    /\ Holding /\ cur = NoCursor
    /\ IF db.filepath # NoPath
       THEN /\ fs' = [fs EXCEPT ![db.filepath] = kvs_save(db)]
            /\ saved' = [saved EXCEPT ![db.filepath] = Snapshot(db)]
       ELSE UNCHANGED <<fs, saved>>
    /\ db' = NoStore
    /\ model' = [k \in Keys |-> NotFound]
    /\ ret' = [op |-> "close", path |-> db.filepath]
    /\ UNCHANGED cur

Open(path) ==
    /\ ~Holding
    /\ db' = kvs_open(path)
    /\ ret' = [op |-> "open", path |-> path]
    /\ UNCHANGED <<cur, fs, model, saved>>

(* fopen fails when there is no file *)
Load(p) ==
    \E j \in Junk :
        LET d == IF fs[p] = NoFile THEN NoStore ELSE kvs_load(fs[p], j)
        IN  /\ ~Holding
            /\ db' = d
            /\ model' = [k \in Keys |->
                            IF \E pr \in saved[p].live : pr[1] = k
                            THEN (CHOOSE pr \in saved[p].live : pr[1] = k)[2]
                            ELSE NotFound]
            /\ ret' = [op |-> "load", path |-> p, rc |-> d # NoStore]
            /\ UNCHANGED <<cur, fs, saved>>

(* ---- the file is damaged while no store is open ---- *)
(* it loses its tail: n bytes are left *)
Cut(p, n) ==
    /\ ~Holding
    /\ fs[p] # NoFile /\ n < Len(fs[p])
    /\ fs' = [fs EXCEPT ![p] = SubSeq(@, 1, n)]
    /\ ret' = [op |-> "cut"]
    /\ UNCHANGED <<db, cur, model, saved>>

(* its first byte is overwritten: the magic no longer matches *)
Smudge(p) ==
    /\ ~Holding
    /\ fs[p] # NoFile /\ Len(fs[p]) >= 4 /\ fs[p][1] # 0
    /\ fs' = [fs EXCEPT ![p][1] = 0]
    /\ ret' = [op |-> "smudge"]
    /\ UNCHANGED <<db, cur, model, saved>>

Mutate(K, V(_)) ==
    \/ \E k \in K : \E v \in V(k) : Put(k, v)
    \/ \E k \in K : Delete(k)

(* ---- puts and deletes over Keys: trees of height up to 3 ---- *)
Next == Mutate(Keys, ValsOf)

Spec == Init /\ [][Next]_vars

(* ---- with point reads ---- *)
NextGet ==
    \/ Mutate(SmallKeys, ValsOf)
    \/ \E k \in SmallKeys : Get(k)
    \/ \E k \in SmallKeys : Exists(k)

SpecGet == Init /\ [][NextGet]_vars

(* ---- with one cursor ---- *)
NextCursor ==
    \/ Mutate(SmallKeys, ValsOf)
    \/ CursorNew
    \/ CursorFree
    \/ CursorFirst
    \/ CursorLast
    \/ CursorNext
    \/ CursorPrev
    \/ \E k \in SmallKeys : CursorSeek(k)

SpecCursor == Init /\ [][NextCursor]_vars

(* ---- with foreach, range and full cursor scans ---- *)
NextIter ==
    \/ Mutate(SmallKeys, ValsOf)
    \/ Foreach
    \/ \E from \in SmallKeys, to \in SmallKeys : Range(from, to)
    \/ ScanForward
    \/ ScanBackward

SpecIter == Init /\ [][NextIter]_vars

(* ---- with snapshot files, over several lives of the handle ---- *)
NextSnap ==
    \/ \E k \in SnapKeys : \E v \in SnapValsOf(k) : Put(k, v)
    \/ \E k \in SnapDelKeys : Delete(k)
    \/ \E p \in Paths : Save(p)
    \/ Close
    \/ Open(NoPath)
    \/ \E p \in Paths : Open(p)
    \/ \E p \in Paths : Load(p)

SpecSnap == Init /\ [][NextSnap]_vars

(* ---- with snapshot files that are damaged before they are loaded; one key ---- *)
(* ---- is deleted, so that a file's records are fewer than the keys put    ---- *)
NextLoad ==
    \/ \E k \in LoadKeys : \E v \in SnapValsOf(k) : Put(k, v)
    \/ Delete(<<1>>)
    \/ \E p \in Paths : Save(p)
    \/ Close
    \/ \E p \in Paths : \E n \in 0..MaxCut : Cut(p, n)
    \/ \E p \in Paths : Smudge(p)
    \/ \E p \in Paths : Load(p)

SpecLoad == Init /\ [][NextLoad]_vars

(* ---- with every read: point reads, one cursor, foreach, range, stats and save; ---- *)
(* ---- one key is deleted, so that the reads meet a tombstone                    ---- *)
NextRead ==
    \/ \E k \in SnapKeys : \E v \in SnapValsOf(k) : Put(k, v)
    \/ Delete(<<2>>)
    \/ \E k \in SnapKeys : Get(k)
    \/ \E k \in SnapKeys : Exists(k)
    \/ CursorNew
    \/ CursorFree
    \/ CursorFirst
    \/ CursorLast
    \/ CursorNext
    \/ CursorPrev
    \/ \E k \in SnapKeys : CursorSeek(k)
    \/ Foreach
    \/ \E to \in SnapKeys : Range(<<2>>, to)
    \/ Stats
    \/ \E p \in Paths : Save(p)

SpecRead == Init /\ [][NextRead]_vars

(* ===== The claims ===== *)

(* byte-wise lexicographic order with length tiebreak, stated without keycmp *)
Precedes(a, b) ==
    \E i \in 1..(Len(a) + 1) :
        /\ \A j \in 1..(i - 1) : j <= Len(b) /\ a[j] = b[j]
        /\ \/ i = Len(a) + 1 /\ Len(b) >= i
           \/ i <= Len(a) /\ i <= Len(b) /\ a[i] < b[i]

PrecedesEq(a, b) == a = b \/ Precedes(a, b)

RECURSIVE Reverse(_)
Reverse(q) == IF q = <<>> THEN <<>> ELSE Reverse(Tail(q)) \o <<Head(q)>>

RECURSIVE Within(_, _, _)
Within(q, from, to) ==
    IF q = <<>> THEN <<>>
    ELSE (IF PrecedesEq(from, Head(q)[1]) /\ PrecedesEq(Head(q)[1], to)
          THEN <<Head(q)>> ELSE <<>>)
         \o Within(Tail(q), from, to)

(* the pairs the calls so far leave in the store *)
ModelPairs == {<<k, model[k]>> : k \in {x \in Keys : model[x] # NotFound}}

(* C1: after any sequence of puts and deletes, get(K) returns the value of *)
(* the most recent successful put(K, V) when no successful delete(K) came  *)
(* after it, and not-found otherwise.                                      *)
C1_GetReturnsLastPut == ret.op = "get" => ret.val = model[ret.key]

C1_Witness ==
    /\ ret.op = "get" /\ ret.key = <<2>> /\ ret.val = <<8>>
    /\ \E k \in SmallKeys : SlotState(db, k) = "tombstoned"
    /\ db.height = 2

(* C2: in every state reached by puts and deletes, also in a store that    *)
(* load produced, count is the number of non-tombstoned entries referenced *)
(* from the leaves reachable from the root.                                *)
C2_CountIsLiveEntries == Holding => db.count = Cardinality(LiveSlots(db))

C2_Witness ==
    /\ ret.op = "load" /\ ret.rc
    /\ db.count = 3 /\ db.height = 2

(* C3: put(K, V1), delete(K), put(K, V2), each succeeding, from any store  *)
(* state: get(K) returns V2, count is what it was after the first put, and *)
(* the second put reuses the tombstoned slot: the leaf of K keeps its      *)
(* number of keys and no node is split.                                    *)
C3_Law(d, k, v1, v2) ==
    LET r1 == kvs_put_raw(d, k, v1)
        r2 == kvs_delete(r1.db, k)
        r3 == kvs_put_raw(r2.db, k, v2)
        leaf == find_leaf(r2.db, k)
    IN  (r1.rc = KVS_OK /\ r3.rc = KVS_OK) =>
            /\ r2.rc = KVS_OK
            /\ kvs_get_raw(r3.db, k) = v2
            /\ r3.db.count = r1.db.count
            /\ find_leaf(r3.db, k) = leaf
            /\ r3.db.nodes[leaf].num_keys = r2.db.nodes[leaf].num_keys
            /\ r3.db.node_count = r2.db.node_count
            /\ r3.db.height = r2.db.height
            /\ \A n \in 1..r2.db.node_count :
                   r3.db.nodes[n].num_keys = r2.db.nodes[n].num_keys

C3_PutDeletePut == Holding => \A k \in Keys, v1 \in Vals, v2 \in Vals : C3_Law(db, k, v1, v2)

C3_Witness ==
    /\ ret.op = "put" /\ ret.rc = KVS_OK /\ ret.was = "tombstoned"
    /\ model[<<2>>] = <<8>> /\ db.count = 3

(* C4: whenever first, last, seek, next or prev leaves the cursor valid,   *)
(* the entry under the cursor is not tombstoned.                           *)
C4_CursorNeverOnTombstone ==
    (Holding /\ cur # NoCursor /\ kvs_cursor_valid(db, cur)) =>
        ~db.nodes[cur.node].entries[cur.index + 1].deleted

(* C5: range(from, to) passes to its callback exactly the pairs foreach    *)
(* passes whose keys satisfy from <= key <= to, in the same order, and     *)
(* returns their number.                                                   *)
C5_RangeIsForeachWithin ==
    ret.op = "range" =>
        /\ ret.out = Within(kvs_foreach(db).out, ret.from, ret.to)
        /\ ret.count = Len(ret.out)

(* C6: foreach calls back exactly once for every live key, with its        *)
(* current value, in strictly ascending key order, never for a tombstoned  *)
(* key, and returns count.                                                 *)
C6_ForeachLiveAscending ==
    ret.op = "foreach" =>
        /\ {ret.out[i] : i \in 1..Len(ret.out)} = ModelPairs
        /\ \A i \in 1..(Len(ret.out) - 1) : Precedes(ret.out[i][1], ret.out[i + 1][1])
        /\ \A i \in 1..Len(ret.out) : ret.out[i][1] \notin TombKeys(db)
        /\ ret.count = db.count
        /\ ret.count = Len(ret.out)

C6_Witness ==
    /\ ret.op = "foreach" /\ ret.count = 3
    /\ TombKeys(db) # {}
    /\ <<2>> \notin TombKeys(db) /\ model[<<2>>] = <<8>>
    /\ db.node_count > 3

(* C7: first() and then next() until the cursor is invalid visits the      *)
(* entries foreach visits, in the same order, each once.                   *)
C7_ForwardScanIsForeach == ret.op = "scan_forward" => ret.out = kvs_foreach(db).out

C7_Witness ==
    /\ ret.op = "scan_forward" /\ Len(ret.out) = 2
    /\ Cardinality(TombKeys(db)) = 2
    /\ db.node_count > 3
    /\ db.nodes[db.first_leaf].entries[1].deleted

(* C8: last() and then prev() until the cursor is invalid visits the       *)
(* entries foreach visits, in the reverse order, each once.                *)
C8_BackwardScanIsReverse ==
    ret.op = "scan_backward" => ret.out = Reverse(kvs_foreach(db).out)

C8_Witness ==
    /\ ret.op = "scan_backward" /\ Len(ret.out) = 2
    /\ Cardinality(TombKeys(db)) = 2
    /\ db.node_count > 3
    /\ LET n == rightmost(db, db.root)
       IN  db.nodes[n].entries[db.nodes[n].num_keys].deleted

(* the keys stored in the leaf chain, tombstoned ones included *)
RECURSIVE ChainKeys(_, _)
ChainKeys(d, leaf) ==
    IF leaf = NULL THEN {}
    ELSE {d.nodes[leaf].keys[i] : i \in 1..d.nodes[leaf].num_keys}
         \cup ChainKeys(d, d.nodes[leaf].next)

(* C9: seek(K) leaves the cursor on the entry with the least key >= K      *)
(* among the keys stored in the leaf chain, and invalid when there is none.*)
C9_SeekLeastKeyAtLeast ==
    ret.op = "seek" =>
        LET atLeast == {k \in ChainKeys(db, db.first_leaf) : PrecedesEq(ret.key, k)}
        IN  IF atLeast = {}
            THEN ~kvs_cursor_valid(db, cur) /\ ~ret.rc
            ELSE /\ kvs_cursor_valid(db, cur) /\ ret.rc
                 /\ kvs_cursor_key(db, cur) \in atLeast
                 /\ \A k \in atLeast : PrecedesEq(kvs_cursor_key(db, cur), k)

(* the descent ended in a leaf whose keys are all below K and the cursor crossed *)
C9_Witness ==
    /\ ret.op = "seek" /\ ret.rc
    /\ cur.index = 0 /\ cur.node # db.first_leaf
    /\ cur.node # find_leaf(db, ret.key)

C9_WitnessExhausted ==
    /\ ret.op = "seek" /\ ~ret.rc /\ db.height = 2

(* C10: the store load returns for a file save wrote has the live (key,    *)
(* value) pairs and the count of the saved store, and none of the keys     *)
(* that were tombstoned in it.                                             *)
C10_SaveLoadRoundTrip ==
    (ret.op = "load" /\ fs[ret.path] # NoFile) =>
        /\ ret.rc
        /\ LivePairs(db) = saved[ret.path].live
        /\ db.count = saved[ret.path].count
        /\ StoredKeys(db) \cap saved[ret.path].dead = {}
        /\ \A k \in Keys :
               kvs_get_raw(db, k) = IF \E pr \in saved[ret.path].live : pr[1] = k
                                    THEN (CHOOSE pr \in saved[ret.path].live : pr[1] = k)[2]
                                    ELSE NotFound

C10_Witness ==
    /\ ret.op = "load" /\ ret.rc
    /\ saved[ret.path].dead # {}
    /\ <<<<2>>, <<7, 8>>>> \in saved[ret.path].live
    /\ db.count = 2

(* C11: open(P) on a path that holds a valid snapshot returns a store with *)
(* the live (key, value) pairs and the count recorded in the file, so that *)
(* open(P), put(K, V), close, open(P), get(K) returns V.                   *)
C11_OpenLoadsSnapshot ==
    (ret.op = "open" /\ ret.path # NoPath /\ fs[ret.path] # NoFile) =>
        /\ LivePairs(db) = saved[ret.path].live
        /\ db.count = saved[ret.path].count
        /\ \A pr \in saved[ret.path].live : kvs_get_raw(db, pr[1]) = pr[2]

(* ---- the snapshot file layout of section 4.6, read without the loader ---- *)
(* the n-byte little-endian number at offset pos of f *)
RECURSIVE Word(_, _, _)
Word(f, pos, n) == IF n = 0 THEN 0 ELSE f[pos + 1] + 256 * Word(f, pos + 1, n - 1)

(* n records at offset pos: whether the file holds them all, and their pairs *)
RECURSIVE Records(_, _, _)
Records(f, pos, n) ==
    IF n = 0 THEN [ok |-> TRUE, pairs |-> <<>>]
    ELSE IF pos + 8 > Len(f) THEN [ok |-> FALSE, pairs |-> <<>>]
    ELSE LET klen == Word(f, pos, 4)
             vlen == Word(f, pos + 4, 4)
             rest == Records(f, pos + 8 + klen + vlen, n - 1)
         IN  IF pos + 8 + klen + vlen > Len(f) THEN [ok |-> FALSE, pairs |-> <<>>]
             ELSE [ok |-> rest.ok,
                   pairs |-> << <<SubSeq(f, pos + 9, pos + 8 + klen),
                                  SubSeq(f, pos + 9 + klen, pos + 8 + klen + vlen)>> >>
                             \o rest.pairs]

HeaderLen == 4 + 2 * SizeofSizeT

(* a file as section 4.6 lays it out: magic, count, bloom bit count, bloom, records *)
Parsed(f) ==
    IF Len(f) < HeaderLen \/ Word(f, 0, 4) # KVS_MAGIC
    THEN [ok |-> FALSE, count |-> 0, pairs |-> <<>>]
    ELSE LET count == Word(f, 4, SizeofSizeT)
             bits == Word(f, 4 + SizeofSizeT, SizeofSizeT)
             r == Records(f, HeaderLen + bits \div 8, count)
         IN  IF Len(f) < HeaderLen + bits \div 8
             THEN [ok |-> FALSE, count |-> count, pairs |-> <<>>]
             ELSE [ok |-> r.ok, count |-> count, pairs |-> r.pairs]

(* C12: close of a store opened with a path P leaves at P a snapshot of    *)
(* the store's live entries; close of a store opened without a path (a     *)
(* store load returned is one) writes no file.                             *)
C12_CloseWritesSnapshot ==
    [][(Holding /\ ret'.op = "close") =>
          IF db.filepath # NoPath
          THEN LET g == Parsed(fs'[db.filepath])
               IN  /\ g.ok
                   /\ g.count = db.count
                   /\ Len(g.pairs) = db.count
                   /\ {g.pairs[i] : i \in 1..Len(g.pairs)} = LivePairs(db)
                   /\ \A p \in Paths \ {db.filepath} : fs'[p] = fs[p]
          ELSE fs' = fs]_vars

C12_Witness ==
    /\ ret.op = "close" /\ ret.path # NoPath
    /\ saved[ret.path].count = 2 /\ saved[ret.path].dead # {}
    /\ Len(fs[ret.path]) > HeaderLen + KVS_BLOOM_INIT_BITS \div 8

(* a store without a path is closed while a snapshot file exists *)
C12_WitnessNoPath ==
    /\ ret.op = "close" /\ ret.path = NoPath
    /\ \E p \in Paths : fs[p] # NoFile /\ saved[p].count = 2

(* C13: load returns no store for a file whose first 4 bytes are not the   *)
(* magic, for a file that ends inside the header (magic, count, bloom bit  *)
(* count, bloom bytes) and for a file that ends before the records the     *)
(* header counts are all there.                                            *)
C13_LoadRejectsMalformed ==
    (ret.op = "load" /\ fs[ret.path] # NoFile /\ ~Parsed(fs[ret.path]).ok) => ~ret.rc

(* C14: a put that the arena cannot serve (entry record, key copy, value   *)
(* copy) returns out-of-memory and leaves the index as it was: nodes with  *)
(* their keys and entries, root, first leaf, count, height, node count and *)
(* the bloom filter; get of every key returns what it returned before.     *)
C14_FailedPutLeavesIndex ==
    [][(ret'.op = "put" /\ ret'.rc # KVS_OK) =>
          /\ ret'.rc = KVS_ERR_NOMEM
          /\ db'.nodes = db.nodes
          /\ db'.root = db.root /\ db'.first_leaf = db.first_leaf
          /\ db'.count = db.count /\ db'.height = db.height
          /\ db'.node_count = db.node_count
          /\ db'.bloom = db.bloom /\ db'.bloom_bits = db.bloom_bits
          /\ db'.bloom_set_bits = db.bloom_set_bits
          /\ \A k \in Keys : kvs_get_raw(db', k) = kvs_get_raw(db, k)
          /\ model' = model]_vars

(* the put failed at its third allocation, of a key that was not stored *)
C14_Witness ==
    /\ ret.op = "put" /\ ret.rc = KVS_ERR_NOMEM /\ ret.was = "absent"
    /\ db.pool_pos = db.pool_size
    /\ db.count > 0 /\ TombKeys(db) # {}

(* C15: delete(K) of a key that was never put, or whose entry is already   *)
(* tombstoned, returns not-found and changes nothing, so that a second     *)
(* delete of the same key does not decrement count again.                  *)
C15_DeleteOfMissingKey ==
    Holding =>
        \A k \in Keys :
            LET r1 == kvs_delete(db, k)
                r2 == kvs_delete(r1.db, k)
            IN  /\ SlotState(db, k) # "live" => r1 = [db |-> db, rc |-> KVS_ERR_NOTFOUND]
                /\ r2 = [db |-> r1.db, rc |-> KVS_ERR_NOTFOUND]
                /\ r1.rc = KVS_OK => r2.db.count = db.count - 1

(* a delete returned not-found for a key whose entry is tombstoned, in a tree of two levels *)
C15_Witness ==
    /\ ret.op = "delete" /\ ret.rc = KVS_ERR_NOTFOUND
    /\ db.count = 3 /\ db.height = 2
    /\ Cardinality(TombKeys(db)) = 1
    /\ Cardinality(StoredKeys(db)) = 4

(* C16: the bloom filter answers maybe for every key that was ever put     *)
(* into the store, live or deleted since, also after growth.  A key once   *)
(* put stays in its leaf (delete only sets the tombstone flag), so the     *)
(* keys ever put are the keys stored in the leaves.                        *)
C16_BloomKeepsEveryKeyPut ==
    Holding => \A k \in StoredKeys(db) : bloom_maybe(db, k)

(* C17: the bloom filter answers maybe for every live key, also right      *)
(* after a growth step and in a store load produced, so the bloom test at  *)
(* the head of get, exists and delete never hides a live key.              *)
C17_BloomHasEveryLiveKey ==
    Holding =>
        \A s \in LiveSlots(db) :
            LET k == EntryAt(db, s).key
            IN  /\ bloom_maybe(db, k)
                /\ kvs_get_raw(db, k) = EntryAt(db, s).value
                /\ kvs_exists(db, k)
                /\ kvs_delete(db, k).rc = KVS_OK

(* a loaded store whose filter grew while its entries were put back *)
C17_Witness ==
    /\ ret.op = "load" /\ ret.rc
    /\ db.count >= 2
    /\ db.bloom_bits > KVS_BLOOM_INIT_BITS
    /\ saved[ret.path].dead # {}

(* the nodes of the tree under node n, n included *)
RECURSIVE TreeNodes(_, _)
TreeNodes(d, n) ==
    IF d.nodes[n].is_leaf THEN {n}
    ELSE {n} \cup UNION {TreeNodes(d, d.nodes[n].children[i]) :
                             i \in 1..(d.nodes[n].num_keys + 1)}

(* C18: after any sequence of puts and deletes the keys of every node of   *)
(* the tree, leaf or internal, are strictly increasing in byte-wise        *)
(* lexicographic order with a proper prefix before the longer key; no node *)
(* holds a key twice.                                                      *)
C18_NodeKeysStrictlyIncreasing ==
    Holding =>
        \A n \in TreeNodes(db, db.root) :
            LET N == db.nodes[n]
            IN  /\ Len(N.keys) = N.num_keys
                /\ \A i \in 1..(N.num_keys - 1) : Precedes(N.keys[i], N.keys[i + 1])
                /\ \A i, j \in 1..N.num_keys : N.keys[i] = N.keys[j] => i = j

(* after a delete, a tree with a leaf that holds a key next to a proper    *)
(* prefix of it and with an internal node of two keys                      *)
C18_Witness ==
    /\ ret.op = "delete" /\ ret.rc = KVS_OK
    /\ \E n \in TreeNodes(db, db.root) :
           ~db.nodes[n].is_leaf /\ db.nodes[n].num_keys = 2
    /\ \E n \in TreeNodes(db, db.root) :
           /\ db.nodes[n].is_leaf
           /\ db.nodes[n].keys = <<<<1>>, <<1, 1>>>>

(* the keys stored in the leaves under node n, tombstoned ones included *)
RECURSIVE SubtreeKeys(_, _)
SubtreeKeys(d, n) ==
    IF d.nodes[n].is_leaf THEN {d.nodes[n].keys[i] : i \in 1..d.nodes[n].num_keys}
    ELSE UNION {SubtreeKeys(d, d.nodes[n].children[i]) :
                   i \in 1..(d.nodes[n].num_keys + 1)}

(* C19: for every internal node with keys k_0..k_{n-1} and children        *)
(* c_0..c_n, every key stored under c_i is below k_i and every key stored  *)
(* under c_{i+1} is k_i or above; the descent from the root for a stored   *)
(* key ends in the leaf that holds it.                                     *)
C19_SeparatorsBoundSubtrees ==
    Holding =>
        /\ \A n \in TreeNodes(db, db.root) :
               LET N == db.nodes[n]
               IN  ~N.is_leaf =>
                       /\ N.num_keys >= 1
                       /\ Len(N.children) = N.num_keys + 1
                       /\ \A i \in 1..N.num_keys :
                              /\ \A k \in SubtreeKeys(db, N.children[i]) :
                                     Precedes(k, N.keys[i])
                              /\ \A k \in SubtreeKeys(db, N.children[i + 1]) :
                                     PrecedesEq(N.keys[i], k)
        /\ \A s \in Slots(db) : find_leaf(db, db.nodes[s[1]].keys[s[2]]) = s[1]

(* right after a put, a tree of height 3 (leaves and an internal node     *)
(* were split) that holds a tombstone                                      *)
C19_Witness ==
    /\ ret.op = "put" /\ ret.rc = KVS_OK
    /\ db.height = 3
    /\ TombKeys(db) # {}

(* the leaves met from leaf on along the next links, at most fuel of them *)
RECURSIVE NextChain(_, _, _)
NextChain(d, leaf, fuel) ==
    IF leaf = NULL \/ fuel = 0 THEN <<>>
    ELSE <<leaf>> \o NextChain(d, d.nodes[leaf].next, fuel - 1)

(* the keys of the leaves of chain q, one after the other *)
RECURSIVE KeysAlong(_, _)
KeysAlong(d, q) ==
    IF q = <<>> THEN <<>> ELSE d.nodes[Head(q)].keys \o KeysAlong(d, Tail(q))

(* C20: first_leaf is the leaf reached from the root by child 0 at every   *)
(* level and has no prev link; the next links from first_leaf pass every   *)
(* leaf of the tree exactly once, in ascending key order, and end at the   *)
(* rightmost leaf; every leaf with a next link is the prev of that leaf.   *)
C20_LeafChainIsTheLeaves ==
    Holding =>
        LET chain == NextChain(db, db.first_leaf, db.node_count + 1)
            keys == KeysAlong(db, chain)
        IN  /\ db.first_leaf = leftmost(db, db.root)
            /\ db.nodes[db.first_leaf].prev = NULL
            /\ {chain[i] : i \in 1..Len(chain)} = Leaves(db, db.root)
            /\ Len(chain) = Cardinality(Leaves(db, db.root))
            /\ \A i \in 1..(Len(keys) - 1) : Precedes(keys[i], keys[i + 1])
            /\ chain[Len(chain)] = rightmost(db, db.root)
            /\ db.nodes[chain[Len(chain)]].next = NULL
            /\ \A l \in Leaves(db, db.root) :
                   db.nodes[l].next # NULL => db.nodes[db.nodes[l].next].prev = l

(* right after a put, three leaves or more, one of them made by the split  *)
(* of a leaf that had a next leaf (nodes are numbered as they are made)    *)
C20_Witness ==
    /\ ret.op = "put" /\ ret.rc = KVS_OK
    /\ Cardinality(Leaves(db, db.root)) >= 3
    /\ \E l \in Leaves(db, db.root) :
           /\ db.nodes[l].next # NULL
           /\ db.nodes[l].next < l

(* what the reads of store d answer when d is empty *)
ReadsAsEmpty(d) ==
    /\ ~kvs_cursor_valid(d, kvs_cursor_first(d, kvs_cursor_new))
    /\ ~kvs_cursor_valid(d, kvs_cursor_last(d, kvs_cursor_new))
    /\ \A k \in Keys :
           /\ ~kvs_cursor_valid(d, kvs_cursor_seek(d, kvs_cursor_new, k))
           /\ kvs_get_raw(d, k) = NotFound

(* C21: on a store in which no key is stored (freshly opened, or loaded    *)
(* from a snapshot without records) first, last and seek of any key leave  *)
(* the cursor invalid and get of any key returns not-found; save and then  *)
(* load of it gives a store with count 0 that is empty in the same way.    *)
C21_EmptyStore ==
    (Holding /\ Slots(db) = {}) =>
        /\ ReadsAsEmpty(db)
        /\ \A j \in Junk :
               LET d2 == kvs_load(kvs_save(db), j)
               IN  /\ d2 # NoStore
                   /\ d2.count = 0
                   /\ Slots(d2) = {}
                   /\ d2.height = 1 /\ d2.node_count = 1
                   /\ ReadsAsEmpty(d2)

(* an empty store that load produced, from the snapshot of a store whose   *)
(* keys were all deleted after its bloom filter had grown                  *)
C21_Witness ==
    /\ ret.op = "load" /\ ret.rc
    /\ Slots(db) = {}
    /\ saved[ret.path].dead # {}
    /\ db.bloom_bits > KVS_BLOOM_INIT_BITS

(* a freshly opened store *)
C21_WitnessOpen ==
    /\ ret.op = "open" /\ ret.path # NoPath
    /\ Holding /\ Slots(db) = {}

(* store d with the fields of the tree only: the bloom filter and the      *)
(* arena position are set to fixed values                                  *)
TreeOf(d) == [d EXCEPT !.bloom = {}, !.bloom_bits = 0, !.bloom_set_bits = 0, !.pool_pos = 0]

(* C22: a put on a key that is present and live changes, in the tree, only *)
(* the value of that key's entry: count, every node's keys and number of   *)
(* keys, the children, the leaf links, first_leaf, root, height and node   *)
(* count stay as they were.                                                *)
C22_UpdateOfLiveKeyFrame ==
    [][(ret'.op = "put" /\ ret'.rc = KVS_OK /\ ret'.was = "live") =>
          \E k \in Keys :
              LET l == lookup(db, k)
              IN  /\ l.found
                  /\ model'[k] # NotFound
                  /\ TreeOf(db') =
                         TreeOf([db EXCEPT !.nodes[l.leaf].entries[l.pos + 1].value = model'[k]])
                  /\ db'.count = db.count
                  /\ db'.height = db.height /\ db'.node_count = db.node_count
                  /\ \A n \in 1..db.node_count :
                         /\ db'.nodes[n].num_keys = db.nodes[n].num_keys
                         /\ db'.nodes[n].keys = db.nodes[n].keys
                         /\ db'.nodes[n].children = db.nodes[n].children
                         /\ db'.nodes[n].next = db.nodes[n].next
                         /\ db'.nodes[n].prev = db.nodes[n].prev]_vars

(* a live key of a tree of height 3 was put again, with another value, at  *)
(* a count at which the growth check runs                                  *)
C22_Witness ==
    /\ ret.op = "put" /\ ret.rc = KVS_OK /\ ret.was = "live"
    /\ model[<<2>>] = <<8>>
    /\ db.height = 3
    /\ db.count % GROWTH_CHECK_STRIDE = 0

(* C23: of the puts of ORDER-1 distinct keys into an empty store, in any   *)
(* order, the last one and no earlier one splits a leaf: before it the     *)
(* tree has height 1 and one node, after it height 2 and three nodes, an   *)
(* internal root with one separator over two leaves.                       *)
C23_FirstSplitAtOrderMinusOne ==
    [][(/\ ret'.op = "put" /\ ret'.rc = KVS_OK /\ ret'.was = "absent"
        /\ Cardinality(StoredKeys(db)) < ORDER - 1) =>
          /\ db.height = 1 /\ db.node_count = 1
          /\ IF Cardinality(StoredKeys(db)) < ORDER - 2
             THEN db'.height = 1 /\ db'.node_count = 1 /\ db'.root = db.root
             ELSE LET R == db'.nodes[db'.root]
                  IN  /\ db'.height = 2 /\ db'.node_count = 3
                      /\ ~R.is_leaf /\ R.num_keys = 1 /\ Len(R.children) = 2
                      /\ R.children[1] # R.children[2]
                      /\ \A i \in 1..2 : db'.nodes[R.children[i]].is_leaf
                      /\ db'.nodes[R.children[1]].num_keys
                            + db'.nodes[R.children[2]].num_keys = ORDER - 1]_vars

(* right after the put of the last of ORDER-1 keys, none of them deleted *)
C23_Witness ==
    /\ ret.op = "put" /\ ret.rc = KVS_OK /\ ret.was = "absent"
    /\ db.count = ORDER - 1 /\ TombKeys(db) = {}
    /\ db.node_count = 3 /\ db.height = 2
    /\ db.nodes[db.first_leaf].keys[1] = <<1, 1>>

(* the numbers of nodes on the paths from node n down to the leaves under it *)
RECURSIVE PathLengths(_, _)
PathLengths(d, n) ==
    IF d.nodes[n].is_leaf THEN {1}
    ELSE {m + 1 : m \in UNION {PathLengths(d, d.nodes[n].children[i]) :
                                  i \in 1..(d.nodes[n].num_keys + 1)}}

(* C24: height is the number of node levels.  A freshly opened store has   *)
(* height 1 and an empty leaf as its root; every path from the root to a   *)
(* leaf has height nodes; a put that splits the root (the root is a new    *)
(* node over the old root and its new sibling) adds one to height, and no  *)
(* other put or delete changes it.                                         *)
C24_HeightIsLevels ==
    [][/\ \A p \in Paths \cup {NoPath} :
              LET d == kvs_open(p)
              IN  /\ d.height = 1 /\ d.node_count = 1
                  /\ d.nodes[d.root].is_leaf /\ d.nodes[d.root].num_keys = 0
       /\ PathLengths(db, db.root) = {db.height}
       /\ PathLengths(db', db'.root) = {db'.height}
       /\ IF db'.root # db.root
          THEN /\ db'.height = db.height + 1
               /\ db'.root = db'.node_count
               /\ db'.nodes[db'.root].num_keys = 1
               /\ db'.nodes[db'.root].children[1] = db.root
               /\ db'.nodes[db'.root].children[2] \notin 1..db.node_count
          ELSE db'.height = db.height]_vars

(* right after the put that split the root a second time *)
C24_Witness ==
    /\ ret.op = "put" /\ ret.rc = KVS_OK
    /\ db.height = 3 /\ db.root = db.node_count
    /\ TombKeys(db) # {}

(* C25: a successful delete(K) sets the tombstone flag of K's entry and    *)
(* takes one from count, and changes nothing else: every node's keys and   *)
(* number of keys, the children and leaf links, height, node count, the    *)
(* bloom filter and the arena position stay, and K stays in its leaf slot. *)
C25_DeleteFrame ==
    [][(ret'.op = "delete" /\ ret'.rc = KVS_OK) =>
          \E k \in Keys :
              LET l == lookup(db, k)
              IN  /\ l.found
                  /\ model'[k] = NotFound /\ model[k] # NotFound
                  /\ db' = [db EXCEPT !.nodes[l.leaf].entries[l.pos + 1].deleted = TRUE,
                                      !.count = @ - 1]
                  /\ db'.nodes[l.leaf].keys[l.pos + 1] = k
                  /\ db'.nodes[l.leaf].entries[l.pos + 1].key = k
                  /\ SlotState(db', k) = "tombstoned"]_vars

(* right after the delete of the last live key of a tree of height 3: its  *)
(* leaves hold tombstones only and no node was taken out                   *)
C25_Witness ==
    /\ ret.op = "delete" /\ ret.rc = KVS_OK
    /\ db.count = 0 /\ db.height = 3
    /\ Cardinality(TombKeys(db)) = Cardinality(Keys)

(* sequence q is made of the members of set S, each once, in ascending order *)
AscendingOf(q, S) ==
    /\ {q[i] : i \in 1..Len(q)} = S
    /\ \A i \in 1..(Len(q) - 1) : Precedes(q[i], q[i + 1])

(* the internal nodes of d that have l and r as neighbouring children with *)
(* key sep between them                                                    *)
ParentsOf(d, l, r, sep) ==
    {n \in TreeNodes(d, d.root) :
        /\ ~d.nodes[n].is_leaf
        /\ \E i \in 1..d.nodes[n].num_keys :
               /\ d.nodes[n].children[i] = l
               /\ d.nodes[n].children[i + 1] = r
               /\ d.nodes[n].keys[i] = sep}

(* C26: a leaf split at mid = num_keys / 2 keeps keys [0, mid) in the leaf *)
(* and moves keys [mid, num_keys) with their entries, in order, to a new   *)
(* leaf that becomes the next leaf of the old one, with the links of both  *)
(* neighbours set; the separator put in the parent is the first key of the *)
(* new leaf, which keeps it; no entry is lost or doubled.                  *)
C26_LeafSplit ==
    [][(Leaves(db', db'.root) # Leaves(db, db.root)) =>
          \E l \in Leaves(db, db.root) :
          \E r \in Leaves(db', db'.root) \ Leaves(db, db.root) :
          \E k \in Keys :
              LET L == db.nodes[l]
                  L1 == db'.nodes[l]
                  R1 == db'.nodes[r]
                  mid == (ORDER - 1) \div 2
                  all == L1.entries \o R1.entries
              IN  /\ Leaves(db', db'.root) = Leaves(db, db.root) \cup {r}
                  /\ r \notin 1..db.node_count
                  /\ SlotState(db, k) = "absent"
                  /\ L.num_keys = ORDER - 2
                  /\ AscendingOf(L1.keys \o R1.keys,
                                 {L.keys[i] : i \in 1..L.num_keys} \cup {k})
                  /\ L1.num_keys = mid /\ Len(L1.keys) = mid /\ Len(L1.entries) = mid
                  /\ R1.num_keys = ORDER - 1 - mid
                  /\ Len(R1.keys) = R1.num_keys /\ Len(R1.entries) = R1.num_keys
                  /\ \A i \in 1..(ORDER - 1) :
                         /\ all[i].key = (L1.keys \o R1.keys)[i]
                         /\ IF all[i].key = k
                            THEN all[i] = [key |-> k, value |-> model'[k], deleted |-> FALSE]
                            ELSE \E j \in 1..L.num_keys : L.entries[j] = all[i]
                  /\ L1.next = r /\ R1.prev = l
                  /\ R1.next = L.next /\ L1.prev = L.prev
                  /\ L.next # NULL => db'.nodes[L.next].prev = r
                  /\ L.prev # NULL => db'.nodes[L.prev].next = l
                  /\ ParentsOf(db', l, r, R1.keys[1]) # {}
                  /\ \A m \in Leaves(db, db.root) \ {l} :
                         /\ db'.nodes[m].keys = db.nodes[m].keys
                         /\ db'.nodes[m].entries = db.nodes[m].entries
                         /\ db'.nodes[m].next = db.nodes[m].next]_vars

(* right after a put of an absent key, the newest node is a leaf with a    *)
(* next leaf: a leaf with a successor was split under its parent, and the  *)
(* halves hold mid and num_keys - mid keys                                 *)
C26_Witness ==
    /\ ret.op = "put" /\ ret.rc = KVS_OK /\ ret.was = "absent"
    /\ LET R == db.nodes[db.node_count]
       IN  /\ R.is_leaf
           /\ R.next # NULL /\ R.prev # NULL
           /\ R.num_keys = ORDER - 1 - (ORDER - 1) \div 2
           /\ db.nodes[R.prev].num_keys = (ORDER - 1) \div 2

Internals(d) == TreeNodes(d, d.root) \ Leaves(d, d.root)

(* sequence q holds every member of set S once and nothing else *)
OnceEach(q, S) == {q[i] : i \in 1..Len(q)} = S /\ Len(q) = Cardinality(S)

BitsOf(k, bits) == {WMod(fnv1a(k), bits), WMod(hash2(k), bits), WMod(hash3(k), bits)}

(* the bit positions of the live keys of store d in a vector of bits bits *)
LiveBits(d, bits) == UNION {BitsOf(EntryAt(d, s).key, bits) : s \in LiveSlots(d)}

(* C28: a growth check that finds the fill at the threshold (one half) or  *)
(* above with the bit count below the maximum replaces the vector by one   *)
(* of 4 times the bits, at most the maximum, holding the bits of the live  *)
(* keys; any other check, and any call that runs no check, leaves the bit  *)
(* count as it was.  The bit count of a store never decreases and stays    *)
(* between the initial and the maximum bit count.                          *)
C28_BloomGrowth ==
    [][/\ db'.bloom_bits >= db.bloom_bits
       /\ db'.bloom_bits >= KVS_BLOOM_INIT_BITS /\ db'.bloom_bits <= KVS_BLOOM_MAX_BITS
       /\ IF ret'.op = "put" /\ ret'.rc = KVS_OK
          THEN \E k \in Keys :
                   LET mine == BitsOf(k, db.bloom_bits)
                       fill2 == 2 * (db.bloom_set_bits + Cardinality(mine \ db.bloom))
                       x4 == 4 * db.bloom_bits
                   IN  /\ SlotState(db, k) = ret'.was
                       /\ SlotState(db', k) = "live"
                       /\ IF /\ db'.count % GROWTH_CHECK_STRIDE = 0
                             /\ fill2 >= db.bloom_bits
                             /\ db.bloom_bits < KVS_BLOOM_MAX_BITS
                          THEN /\ db'.bloom_bits = IF x4 > KVS_BLOOM_MAX_BITS
                                                    THEN KVS_BLOOM_MAX_BITS ELSE x4
                               /\ db'.bloom = LiveBits(db', db'.bloom_bits)
                          ELSE /\ db'.bloom_bits = db.bloom_bits
                               /\ db'.bloom = db.bloom \cup mine
          ELSE db'.bloom_bits = db.bloom_bits /\ db'.bloom = db.bloom]_vars

(* right after a growth step: the vector has the maximum bit count and     *)
(* holds the bits of the live keys only, one key being tombstoned          *)
C28_Witness ==
    /\ ret.op = "put" /\ ret.rc = KVS_OK
    /\ db.bloom_bits = KVS_BLOOM_MAX_BITS
    /\ db.bloom = LiveBits(db, db.bloom_bits)
    /\ TombKeys(db) # {}
    /\ \E k \in TombKeys(db) : ~bloom_maybe(db, k)

(* C29: the growth check runs after the puts that are the stride-th, the   *)
(* 2*stride-th, ... put that added a key, whatever deletes came between,   *)
(* and after no other put; it does not run after a put that only          *)
(* overwrites a live key.  A check that does not run cannot grow the       *)
(* filter: a put on a live key leaves the bit count as it was.             *)
C29_NoGrowthCheckOnOverwrite ==
    [][(ret'.op = "put" /\ ret'.rc = KVS_OK /\ ret'.was = "live") =>
          db'.bloom_bits = db.bloom_bits]_vars

(* C30: in every store, opened or produced by load, the set-bit counter is *)
(* the number of 1 bits of the bloom vector, so the fill of the growth     *)
(* check and of the statistics is the true fill.                           *)
C30_SetBitCounterIsPopcount ==
    Holding => db.bloom_set_bits = Cardinality(db.bloom)

(* the bytes the records of pairs q take: two 4-byte lengths, key, value *)
RECURSIVE RecordBytes(_)
RecordBytes(q) ==
    IF q = <<>> THEN 0
    ELSE 8 + Len(Head(q)[1]) + Len(Head(q)[2]) + RecordBytes(Tail(q))

(* C31: the file save writes holds, after the header, one record for every *)
(* live entry and none for a tombstoned one, in strictly ascending key     *)
(* order, each with the key and value the entry has now; the count field   *)
(* of the header is the number of records, and nothing follows them.       *)
C31_SaveWritesLiveRecords ==
    ret.op = "save" =>
        \E p \in Paths :
            LET f == fs[p]
                g == Parsed(f)
            IN  /\ f # NoFile
                /\ g.ok
                /\ g.count = Len(g.pairs)
                /\ Len(f) = HeaderLen + db.bloom_bits \div 8 + RecordBytes(g.pairs)
                /\ \A i \in 1..(Len(g.pairs) - 1) :
                       Precedes(g.pairs[i][1], g.pairs[i + 1][1])
                /\ {g.pairs[i] : i \in 1..Len(g.pairs)} = LivePairs(db)
                /\ \A i \in 1..Len(g.pairs) : g.pairs[i][1] \notin TombKeys(db)
                /\ \A i \in 1..Len(g.pairs) : g.pairs[i][2] = model[g.pairs[i][1]]

(* a save of a store of two leaves with a tombstone between two live keys *)
C31_Witness ==
    /\ ret.op = "save" /\ ret.rc = KVS_OK
    /\ db.height = 2
    /\ LivePairs(db) = {<<<<1, 1>>, <<8>>>>, <<<<3>>, <<7>>>>}
    /\ TombKeys(db) = {<<2>>}

(* what one allocation of size bytes from store d gives: a region at a     *)
(* multiple of 8, inside the pool, at or after the position d had (where   *)
(* every region returned before ends), or a failure that leaves d as it is *)
AllocLaw(d, size) ==
    LET a == pool_alloc(d, size)
        need == CHOOSE n \in size..(size + 7) : n % 8 = 0
    IN  IF a.ok
        THEN /\ a.p % 8 = 0
             /\ a.p >= d.pool_pos
             /\ a.p + size <= a.db.pool_pos
             /\ a.db.pool_pos <= d.pool_size
             /\ a.db.pool_pos % 8 = 0
             /\ a.db = [d EXCEPT !.pool_pos = a.db.pool_pos]
        ELSE /\ a.db = d
             /\ d.pool_pos + need > d.pool_size

(* C32: every successful allocation returns a region that starts at a      *)
(* multiple of 8, lies inside the pool and overlaps no region returned     *)
(* before; the arena position is always a multiple of 8, never above the   *)
(* pool size, and never decreases; an allocation that would pass the end   *)
(* of the pool fails and leaves the position as it was.                    *)
C32_ArenaAllocator ==
    [][/\ db.pool_pos % 8 = 0 /\ db.pool_pos <= db.pool_size
       /\ db'.pool_pos % 8 = 0 /\ db'.pool_pos <= db'.pool_size
       /\ db'.pool_pos >= db.pool_pos
       /\ db'.pool_size = db.pool_size
       /\ \A size \in 1..(SizeofEntry + 1) : AllocLaw(db, size) /\ AllocLaw(db', size)
       /\ (ret'.op = "put" /\ ret'.rc = KVS_OK) =>
              \E k \in Keys, v \in Vals :
                  LET a1 == pool_alloc(db, SizeofEntry)
                      a2 == pool_alloc(a1.db, Len(k) + 1)
                      a3 == pool_alloc(a2.db, Len(v) + 1)
                  IN  /\ model'[k] = v
                      /\ a1.ok /\ a2.ok /\ a3.ok
                      /\ a1.p + SizeofEntry <= a2.p
                      /\ a2.p + Len(k) + 1 <= a3.p
                      /\ a3.p + Len(v) + 1 <= db'.pool_pos
                      /\ db'.pool_pos = a3.db.pool_pos]_vars

(* a put failed for want of arena space in a pool that earlier puts filled *)
C32_Witness ==
    /\ ret.op = "put" /\ ret.rc = KVS_ERR_NOMEM
    /\ db.pool_pos > 0
    /\ ~pool_alloc(db, SizeofEntry).ok
    /\ ~pool_alloc(db, 1).ok

(* C33: first_leaf never changes while a store lives: after any puts, with *)
(* leaf, internal and root splits, it is the node made as the root leaf at *)
(* open, so the descent by child 0 at the end of every put gives the value *)
(* first_leaf already had.                                                 *)
C33_FirstLeafIsFixed ==
    [][/\ db.first_leaf = kvs_open(NoPath).root
       /\ db'.first_leaf = db.first_leaf
       /\ leftmost(db', db'.root) = db.first_leaf
       /\ db'.nodes[db.first_leaf].is_leaf
       /\ db'.nodes[db.first_leaf].prev = NULL]_vars

(* right after the put that split the internal root: the root leaf of     *)
(* open has been split and is now two levels under a root made last       *)
C33_Witness ==
    /\ ret.op = "put" /\ ret.rc = KVS_OK
    /\ db.height = 3 /\ db.root = db.node_count
    /\ db.root # db.first_leaf
    /\ db.nodes[db.first_leaf].next # NULL

(* the fill of the nodes on the path of a put of key, each taken when its  *)
(* level of insert_recursive tests it for a split: the leaf after the key  *)
(* went in, an internal node after the call for its child returned         *)
RECURSIVE Peaks(_, _, _, _, _)
Peaks(d, node, parent, parent_pos, key) ==
    LET n == d.nodes[node]
    IN  IF n.is_leaf
        THEN LET pos == leaf_find_pos(n, key)
                 there == pos < n.num_keys /\ n.keys[pos + 1] = key
             IN  {[keys |-> IF there THEN n.num_keys ELSE n.num_keys + 1, children |-> 0]}
        ELSE LET pos == internal_find_pos(n, key)
                 r == insert_recursive(d, n.children[pos + 1], node, pos, key,
                                       [key |-> key, value |-> <<7>>, deleted |-> FALSE])
             IN  {[keys |-> r.db.nodes[node].num_keys,
                   children |-> Len(r.db.nodes[node].children)]}
                 \cup Peaks(d, n.children[pos + 1], node, pos, key)

(* C34: no node ever holds more than its arrays take.  While a put runs no *)
(* node has more than ORDER-1 keys or more than ORDER children; after      *)
(* every put every node has at most ORDER-2 keys, every internal node has  *)
(* num_keys + 1 children, and every leaf but a root leaf has a key.        *)
C34_NodeCapacity ==
    Holding =>
        /\ \A n \in TreeNodes(db, db.root) :
               LET N == db.nodes[n]
               IN  /\ N.num_keys <= ORDER - 2
                   /\ Len(N.keys) = N.num_keys
                   /\ IF N.is_leaf
                      THEN /\ Len(N.entries) = N.num_keys
                           /\ n # db.root => N.num_keys >= 1
                      ELSE /\ Len(N.children) = N.num_keys + 1
                           /\ N.num_keys >= 1
        /\ \A k \in Keys :
               \A pk \in Peaks(db, db.root, NULL, 0, k) :
                   pk.keys <= ORDER - 1 /\ pk.children <= ORDER

(* a store in which a put of some absent key fills a leaf and then the     *)
(* root above it to ORDER-1 keys and ORDER children before they are split  *)
C34_Witness ==
    /\ ret.op = "put" /\ ret.rc = KVS_OK
    /\ db.height = 2
    /\ \E k \in Keys :
           /\ [keys |-> ORDER - 1, children |-> 0] \in Peaks(db, db.root, NULL, 0, k)
           /\ [keys |-> ORDER - 1, children |-> ORDER] \in Peaks(db, db.root, NULL, 0, k)

(* the pairs of the records of file f *)
PairsIn(f) == LET g == Parsed(f) IN {g.pairs[i] : i \in 1..Len(g.pairs)}

(* C35: open of a path that holds a snapshot, then close with no put or    *)
(* delete between, leaves the file with the live pairs it had before the   *)
(* open; a session takes from the file no pair it did not delete or        *)
(* overwrite.                                                              *)
C35_OpenCloseKeepsSnapshot ==
    [][(/\ ret.op = "open" /\ ret.path # NoPath
        /\ ret'.op = "close"
        /\ Parsed(fs[ret.path]).ok) =>
          /\ Parsed(fs'[ret.path]).ok
          /\ PairsIn(fs'[ret.path]) = PairsIn(fs[ret.path])]_vars

(* C36: a put that returns out-of-memory takes no arena space: the arena   *)
(* position, which the statistics report as memory used, is after the      *)
(* failed put what it was before.                                          *)
C36_FailedPutTakesNoSpace ==
    [][(ret'.op = "put" /\ ret'.rc = KVS_ERR_NOMEM) =>
          db'.pool_pos = db.pool_pos]_vars

(* C37: every successful put makes the arena position strictly larger, whether the key *)
(* was absent, live (its value is only overwritten) or tombstoned (it is re-inserted), *)
(* and a delete never makes it smaller; the position never passes the pool size, so    *)
(* puts to one key cannot succeed for ever                                             *)
C37_PutAlwaysTakesSpace ==
    [][/\ (ret'.op = "put" /\ ret'.rc = KVS_OK) =>
              /\ db'.pool_pos > db.pool_pos
              /\ db'.pool_pos <= db'.pool_size
       /\ ret'.op = "delete" => db'.pool_pos >= db.pool_pos]_vars

(* puts to one single key until the pool is used up: the last put returns out of *)
(* memory, the store holds that one key and count is 1                           *)
C37_Witness ==
    /\ ret.op = "put" /\ ret.rc = KVS_ERR_NOMEM /\ ret.was = "live"
    /\ db.count = 1 /\ db.node_count = 1
    /\ db.nodes[db.root].num_keys = 1
    /\ LivePairs(db) # {}

(* the calls that only read the store, by the name they leave in ret *)
CursorOps == {"cursor_new", "cursor_free", "move", "seek"}
ReadOps == {"get", "exists", "foreach", "range", "stats", "save"} \cup CursorOps

Motions(d, c) ==
    {kvs_cursor_first(d, c), kvs_cursor_last(d, c), kvs_cursor_next(d, c), kvs_cursor_prev(d, c)}

(* some leaf of the chain has keys and every one of them is tombstoned *)
SomeLeafAllTombstoned(d) ==
    \E n \in 1..d.node_count :
        /\ d.nodes[n].is_leaf /\ d.nodes[n].num_keys > 0
        /\ \A i \in 1..d.nodes[n].num_keys : d.nodes[n].entries[i].deleted

(* C39: first, last, next and prev end on every store and from every position, also *)
(* when every entry of a leaf or of all leaves is tombstoned: they stop on an entry  *)
(* that is not tombstoned or leave the cursor invalid, and invalid when the store    *)
(* holds no live entry. A cursor that next or prev has left invalid has no leaf, and *)
(* next and prev leave it as it is; an invalid cursor becomes valid only by first,   *)
(* last or seek.                                                                     *)
C39_ExhaustionIsAbsorbing ==
    [][cur # NoCursor =>
          /\ \A m \in Motions(db, cur) :
                 /\ kvs_cursor_valid(db, m) => ~db.nodes[m.node].entries[m.index + 1].deleted
                 /\ LivePairs(db) = {} => ~kvs_cursor_valid(db, m)
          /\ \A n \in {kvs_cursor_next(db, cur), kvs_cursor_prev(db, cur)} :
                 ~kvs_cursor_valid(db, n) =>
                     /\ n.node = NULL
                     /\ kvs_cursor_next(db, n) = n
                     /\ kvs_cursor_prev(db, n) = n
          /\ (/\ ~kvs_cursor_valid(db, cur)
              /\ ret'.op = "move" /\ ret'.rc) =>
                 cur' \in {kvs_cursor_first(db, cur), kvs_cursor_last(db, cur)}
          /\ (/\ ret.op = "move" /\ ~ret.rc /\ cur.node = NULL
              /\ ret'.op = "move"
              /\ cur' \notin {kvs_cursor_first(db, cur), kvs_cursor_last(db, cur)}) =>
                 ~ret'.rc /\ cur' = cur]_vars

(* prev has run off the first entry of a tree of height 2 that has a leaf with every *)
(* entry tombstoned and a live entry elsewhere: the cursor has no leaf and is invalid *)
C39_Witness ==
    /\ ret.op = "move" /\ ~ret.rc
    /\ cur # NoCursor /\ cur.node = NULL /\ cur.index = -1
    /\ db.height = 2
    /\ SomeLeafAllTombstoned(db)
    /\ LivePairs(db) # {}
    /\ kvs_cursor_next(db, cur) = cur

====
